---- MODULE Spec2Model ----
(***************************************************************************)
(* The password vault of internal/pwmanager (pwmanager.go, keymanager.go,  *)
(* vault_v2.go) over the primitives of internal/encrypt and internal/hash. *)
(*                                                                         *)
(* Byte strings are symbolic terms (records tagged by the field t):        *)
(*   rand   - bytes read from crypto/rand                                  *)
(*   str    - []byte(s) of a Go string                                     *)
(*   empty  - a nil or zero-length slice                                   *)
(*   scrypt - the output of scrypt.Key                                     *)
(*   hkdf   - the output of HKDF-SHA256                                    *)
(*   gcm    - the output of cipher.AEAD.Seal (ciphertext and tag)          *)
(*   json   - the output of json.Marshal of a PlainEntry                   *)
(*   mod    - a byte string altered by one bit flip, extension or cut      *)
(* AES-GCM, scrypt and HKDF are ideal: Open returns the plaintext exactly  *)
(* when key, nonce, associated data and ciphertext are those of the Seal,  *)
(* and the key derivations are injective in all their arguments. A read of  *)
(* crypto/rand returns a value that no earlier read returned, or, in the   *)
(* edit action of the window and in UpdateEntry, an error (NoRand).        *)
(* The clipboard handling of cmd/gui, GeneratePassword and                 *)
(* AnalyzePasswordStrength have specifications of their own.               *)
(***************************************************************************)
EXTENDS Integers, Sequences, FiniteSets, TLC

VARIABLES
    vault,   \* the *Vault the caller holds, or NoVault
    key,     \* the master key the caller holds ([]byte), or NoBytes
    disk,    \* the content of the vault file, or NoFile
    ret,     \* what the last operation returned
    clock,   \* time.Now()
    steps,   \* number of state-changing operations performed
    drawn,   \* per kind of random value, how many distinct values were read so far
    hist,    \* history: passwords, master key and written entries of vault and
             \* disk, and the AEAD seals performed so far
    gui      \* the system clipboard and the goroutines of secureClipboardCopy

vars == <<vault, key, disk, ret, clock, steps, drawn, hist, gui>>

\* ------------------------------------------------------------------ bounds
MaxSteps == 3   \* state-changing operations on the vault after its creation
MaxClock == 3   \* the wall clock stops advancing at this tick

\* ------------------------------------------------------- program constants
masterKeySize == 32
kdfN == 32768
kdfr == 8
kdfp == 1
keyLen == 32
verifyMsg == "vault-check"
saltSize == 32
nonceSize == 12
idSize == 16
tagSize == 16

\* --------------------------------------------------------------- inputs
Passwords == {"", "hunter2", "hunter3"}
\* the arguments of AddEntry: a title and the four fields
NewEntries ==
    { [Title |-> "GitHub", Username |-> "alice", Password |-> "S3cret!",
       URL |-> "", Notes |-> ""],
      [Title |-> "Mail", Username |-> "bob", Password |-> "pw2",
       URL |-> "https://x", Notes |-> "memo"] }

\* the arguments given to EncryptAESGCM and DecryptAESGCM
AeadKeys ==
    {[t |-> "nil"], [t |-> "empty"]}
        \cup {[t |-> "rand", kind |-> "key", n |-> n, v |-> 1] : n \in {15, 16, 24, 31, 32, 33}}
        \cup {[t |-> "rand", kind |-> "key", n |-> 32, v |-> 2]}
AeadNonces ==
    {[t |-> "nil"], [t |-> "empty"]}
        \cup {[t |-> "rand", kind |-> "nonce", n |-> n, v |-> 1] : n \in {11, 12, 13}}
        \cup {[t |-> "rand", kind |-> "nonce", n |-> 12, v |-> 2]}
AeadPlaintexts ==
    {[t |-> "nil"], [t |-> "empty"], [t |-> "str", s |-> "Secret message"]}
AeadData ==
    {[t |-> "nil"], [t |-> "empty"], [t |-> "str", s |-> "user:alice,action:read"],
     [t |-> "str", s |-> "user:bob,action:read"]}

\* the strings given to SearchTitles and FindByExactTitle
Queries ==
    { <<>>, <<"i">>, <<"H", "U", "B">>, <<" ", "m", "a", "i", "l", "\t">> }

\* ------------------------------------------------------------- byte terms
NoBytes == [t |-> "nil"]
EmptyBytes == [t |-> "empty"]
NoErr == <<>>

Rand(kind, n, v) == [t |-> "rand", kind |-> kind, n |-> n, v |-> v]
Bytes(s) == [t |-> "str", s |-> s]

\* ok/err results: [err |-> <<messages, outermost first>>, val |-> value]
Ok(x) == [err |-> NoErr, val |-> x]
Fail(msg) == [err |-> <<msg>>, val |-> NoBytes]
Wrap(msg, r) == [err |-> <<msg>> \o r.err, val |-> NoBytes]

RECURSIVE BLen(_)
BLen(b) ==
    CASE b.t = "nil" -> 0
      [] b.t = "empty" -> 0
      [] b.t = "rand" -> b.n
      [] b.t = "str" -> Len(b.s)
      [] b.t = "idstr" -> 22
      [] b.t = "scrypt" -> b.L
      [] b.t = "hkdf" -> b.n
      [] b.t = "gcm" -> BLen(b.pt) + tagSize
      [] b.t = "json" -> b.n
      [] b.t = "mod" -> BLen(b.of) + b.d

\* randomBytes / encrypt.GenerateNonce: n bytes from crypto/rand
randomBytes(kind, n, v) == Rand(kind, n, v)
GenerateNonce(n, v) == Rand("nonce", n, v)
generateMasterKey(v) == Rand("mk", masterKeySize, v)

\* Altered bytes: one bit flipped, one byte appended or one byte cut off
Delta(how) == CASE how = "flip" -> 0 [] how = "extend" -> 1 [] how = "truncate" -> -1
Mod(b, how) == [t |-> "mod", of |-> b, how |-> how, d |-> Delta(how)]

\* base64.StdEncoding. A Go string holding base64 text is [t = "b64"]: of is
\* the bytes the text decodes to, slack says that the unused low bits of
\* the last character are not zero, nl that the text holds a line break.
\* DecodeString is not strict: it skips "\r" and "\n" and ignores the unused
\* bits, so several strings decode to the same bytes. EncodeToString writes
\* the canonical text. Any other string does not decode.
B64Encode(b) == [t |-> "b64", of |-> IF BLen(b) = 0 THEN EmptyBytes ELSE b,
                 slack |-> 0, nl |-> 0]
EmptyString == B64Encode(EmptyBytes)
BadB64 == [t |-> "text", s |-> "!!not-base64!!"]
B64Decode(s) == IF s.t = "b64" THEN Ok(s.of) ELSE Fail("illegal base64 data")
\* the text has unused bits in its last character
HasSlack(s) == s.t = "b64" /\ BLen(s.of) % 3 # 0

\* base64.RawURLEncoding of the 16 id bytes: the entry id (a Go string)
RawURLEncode(b) == [t |-> "rawurl", of |-> b]

\* ------------------------------------------------------------------ hash
IsPow2(n) == \E k \in 1..30 : n = 2 ^ k

Scrypt(password, salt, N, r, p, L) ==
    IF L <= 0 THEN Fail("keyLen must be positive")
    ELSE IF ~IsPow2(N) \/ r < 1 \/ p < 1
         THEN Fail("scrypt key derivation failed")
         ELSE Ok([t |-> "scrypt", pw |-> password, salt |-> salt,
                  N |-> N, r |-> r, p |-> p, L |-> L])

HKDF(masterKey, salt, info, length) ==
    Ok([t |-> "hkdf", ikm |-> masterKey, salt |-> salt, info |-> info, n |-> length])

\* --------------------------------------------------------------- encrypt
ValidKeyLen(k) == BLen(k) \in {16, 24, 32}

\* DecryptAESGCM that opens the leading bytes of a ciphertext and leaves
\* bytes after the tag unread
DecryptAESGCMLeading(k, nonce, ciphertext, additionalData) ==
    LET ct == IF ciphertext.t = "mod" /\ ciphertext.how = "extend"
              THEN ciphertext.of ELSE ciphertext
    IN  IF ~ValidKeyLen(k) THEN Fail("key must be 16, 24, or 32 bytes")
        ELSE IF BLen(nonce) # nonceSize THEN Fail("nonce must be 12 bytes for GCM")
        ELSE IF /\ ct.t = "gcm"
                /\ ct.key = k
                /\ ct.nonce = nonce
                /\ ct.aad = (IF BLen(additionalData) = 0 THEN EmptyBytes
                             ELSE additionalData)
             THEN Ok(ct.pt)
             ELSE Fail("decryption failed (authentication tag verification failed)")

\* aes.NewCipher(key): the block cipher of the key
NewCipher(k) ==
    IF ValidKeyLen(k) THEN Ok(k) ELSE Fail("crypto/aes: invalid key size")

\* aesGCM.Seal(nil, nonce, plaintext, additionalData) under the block cipher
\* of k; Seal panics on a nonce of another length than NonceSize()
Seal(k, nonce, plaintext, additionalData) ==
    IF BLen(nonce) # nonceSize THEN Fail("panic: crypto/cipher: incorrect nonce length given to GCM")
    ELSE Ok([t |-> "gcm", key |-> k, nonce |-> nonce, pt |-> plaintext,
             aad |-> IF BLen(additionalData) = 0 THEN EmptyBytes ELSE additionalData])

\* aesGCM.Open(nil, nonce, ciphertext, additionalData)
Open(k, nonce, ciphertext, additionalData) ==
    IF BLen(nonce) # nonceSize THEN Fail("panic: crypto/cipher: incorrect nonce length given to GCM")
    ELSE IF /\ ciphertext.t = "gcm"
            /\ ciphertext.key = k
            /\ ciphertext.nonce = nonce
            /\ ciphertext.aad = (IF BLen(additionalData) = 0 THEN EmptyBytes
                                 ELSE additionalData)
         THEN Ok(ciphertext.pt)
         ELSE Fail("cipher: message authentication failed")

\* EncryptAESGCM that leaves the lengths to the cipher
EncryptAESGCMUnchecked(k, nonce, plaintext, additionalData) ==
    LET block == NewCipher(k)
    IN  IF block.err # NoErr THEN Wrap("failed to create AES cipher", block)
        ELSE Seal(block.val, nonce, plaintext, additionalData)

EncryptAESGCM(k, nonce, plaintext, additionalData) ==
    IF ~ValidKeyLen(k) THEN Fail("key must be 16, 24, or 32 bytes")
    ELSE IF BLen(nonce) # nonceSize THEN Fail("nonce must be 12 bytes for GCM")
    ELSE LET block == NewCipher(k)
         IN  IF block.err # NoErr THEN Wrap("failed to create AES cipher", block)
             ELSE Seal(block.val, nonce, plaintext, additionalData)

\* DecryptAESGCM that opens without the associated data
DecryptAESGCMNoAAD(k, nonce, ciphertext, additionalData) ==
    IF ~ValidKeyLen(k) THEN Fail("key must be 16, 24, or 32 bytes")
    ELSE IF BLen(nonce) # nonceSize THEN Fail("nonce must be 12 bytes for GCM")
    ELSE IF ciphertext.t = "gcm" /\ ciphertext.key = k /\ ciphertext.nonce = nonce
         THEN Ok(ciphertext.pt)
         ELSE Fail("decryption failed (authentication tag verification failed)")

DecryptAESGCM(k, nonce, ciphertext, additionalData) ==
    IF ~ValidKeyLen(k) THEN Fail("key must be 16, 24, or 32 bytes")
    ELSE IF BLen(nonce) # nonceSize THEN Fail("nonce must be 12 bytes for GCM")
    ELSE LET block == NewCipher(k)
         IN  IF block.err # NoErr THEN Wrap("failed to create AES cipher", block)
             ELSE LET pt == Open(block.val, nonce, ciphertext, additionalData)
                  IN  IF pt.err # NoErr
                      THEN Fail("decryption failed (authentication tag verification failed)")
                      ELSE pt

\* ------------------------------------------------------------ keymanager
ZeroKeyManager == [encryptedMKB64 |-> EmptyString, encryptedMKNonce |-> EmptyString]

\* deriveKey that leaves the password out of the derivation
deriveKeyOfSaltOnly(masterPassword, salt) ==
    Scrypt(EmptyBytes, salt, kdfN, kdfr, kdfp, keyLen)

\* pwmanager.deriveKey: scrypt under the package constants
deriveKey(masterPassword, salt) ==
    Scrypt(Bytes(masterPassword), salt, kdfN, kdfr, kdfp, keyLen)

\* wrapMasterKey that stores the master key as it is
wrapMasterKeyInClear(masterKey, password, salt, nv) ==
    Ok([encryptedMKB64 |-> B64Encode(masterKey),
        encryptedMKNonce |-> B64Encode(GenerateNonce(nonceSize, nv))])

\* wrapMasterKey; nv is the value read for the nonce
wrapMasterKey(masterKey, password, salt, nv) ==
    LET wk == deriveKey(password, salt)
        nonce == GenerateNonce(nonceSize, nv)
    IN  IF wk.err # NoErr THEN Wrap("failed to derive wrapping key", wk)
        ELSE LET enc == EncryptAESGCM(wk.val, nonce, masterKey, NoBytes)
             IN  IF enc.err # NoErr THEN Wrap("failed to encrypt master key", enc)
                 ELSE Ok([encryptedMKB64 |-> B64Encode(enc.val),
                          encryptedMKNonce |-> B64Encode(nonce)])

unwrapMasterKey(km, password, salt) ==
    LET wk == deriveKey(password, salt)
        emk == B64Decode(km.encryptedMKB64)
        nn == B64Decode(km.encryptedMKNonce)
    IN  IF wk.err # NoErr THEN Wrap("failed to derive wrapping key", wk)
        ELSE IF emk.err # NoErr THEN Wrap("failed to decode encrypted master key", emk)
        ELSE IF nn.err # NoErr THEN Wrap("failed to decode nonce", nn)
        ELSE LET dec == DecryptAESGCM(wk.val, nn.val, emk.val, NoBytes)
             IN  IF dec.err # NoErr THEN Wrap("failed to decrypt master key", dec)
                 ELSE Ok(dec.val)

\* []byte(id) of an entry id (22 characters of base64.RawURLEncoding)
IdBytes(id) == [t |-> "idstr", id |-> id]

\* deriveEntryKey that derives one key for all entries
deriveEntryKeyOfMasterOnly(masterKey, entryID) ==
    HKDF(masterKey, EmptyBytes, Bytes("entry-key"), 32)

deriveEntryKey(masterKey, entryID) ==
    HKDF(masterKey, IdBytes(entryID), Bytes("entry-key"), 32)

\* ------------------------------------------------------------------ vault
NoVault == [nil |-> TRUE]
EmptyMap == [x \in {} |-> NoBytes]
Put(m, k, e) == [x \in (DOMAIN m) \cup {k} |-> IF x = k THEN e ELSE m[x]]
Remove(m, k) == [x \in (DOMAIN m) \ {k} |-> m[x]]

DefaultKDF == [N |-> kdfN, R |-> kdfr, P |-> kdfp, L |-> keyLen]
ZeroKDF == [N |-> 0, R |-> 0, P |-> 0, L |-> 0]

\* the part Create and CreateWithExistingKey share: salt, wrapped key and
\* verification block for masterKey under masterPassword
NewVault(masterPassword, masterKey, sv, wv, vv) ==
    LET salt == randomBytes("salt", saltSize, sv)
        k == deriveKey(masterPassword, salt)
        km == wrapMasterKey(masterKey, masterPassword, salt, wv)
        nonce == GenerateNonce(nonceSize, vv)
    IN  IF k.err # NoErr THEN k
        ELSE IF km.err # NoErr THEN Wrap("failed to wrap master key", km)
        ELSE LET ct == EncryptAESGCM(k.val, nonce, Bytes(verifyMsg), NoBytes)
             IN  IF ct.err # NoErr THEN ct
                 ELSE Ok([KDF |-> DefaultKDF,
                          SaltB64 |-> B64Encode(salt),
                          KeyMgr |-> km.val,
                          VerifyNnc |-> B64Encode(nonce),
                          VerifyCt |-> B64Encode(ct.val),
                          Entries |-> EmptyMap])

\* Create: [err, val |-> the vault, key |-> the master key]
Create(masterPassword, sv, mv, wv, vv) ==
    LET masterKey == generateMasterKey(mv)
        v == NewVault(masterPassword, masterKey, sv, wv, vv)
    IN  [err |-> v.err, val |-> IF v.err = NoErr THEN v.val ELSE NoVault,
         key |-> IF v.err = NoErr THEN masterKey ELSE NoBytes]

CreateWithExistingKey(masterPassword, masterKey, sv, wv, vv) ==
    LET v == NewVault(masterPassword, masterKey, sv, wv, vv)
    IN  [err |-> v.err, val |-> IF v.err = NoErr THEN v.val ELSE NoVault]

\* the key Unlock derives from the password (lines 170-177)
UnlockDerivedKey(v, masterPassword) ==
    LET salt == B64Decode(v.SaltB64)
    IN  IF salt.err # NoErr THEN Wrap("bad salt", salt)
        ELSE deriveKey(masterPassword, salt.val)

Unlock(v, masterPassword) ==
    IF v = NoVault THEN Fail("nil vault")
    ELSE
    LET salt == B64Decode(v.SaltB64)
        k == UnlockDerivedKey(v, masterPassword)
        nonce == B64Decode(v.VerifyNnc)
        ct == B64Decode(v.VerifyCt)
    IN  IF k.err # NoErr THEN k
        ELSE IF nonce.err # NoErr THEN Wrap("bad verify nonce", nonce)
        ELSE IF ct.err # NoErr THEN Wrap("bad verify ct", ct)
        ELSE LET pt == DecryptAESGCM(k.val, nonce.val, ct.val, NoBytes)
             IN  IF pt.err # NoErr \/ pt.val # Bytes(verifyMsg)
                 THEN Fail("wrong master password")
                 ELSE LET mk == unwrapMasterKey(v.KeyMgr, masterPassword, salt.val)
                      IN  IF mk.err # NoErr
                          THEN Wrap("failed to unwrap master key", mk)
                          ELSE Ok(mk.val)

\* ------------------------------------------------------------ Save / Load
NoFile == [t |-> "nofile"]
Garbage == [t |-> "garbage"]
EmptyObject == [x \in {} |-> NoBytes]

\* encoding/json of one CipherEntry: every field is exported and tagged
MarshalEntry(e) ==
    [id |-> e.ID, title |-> e.Title, nonce |-> e.NonceB64,
     ciphertext |-> e.CipherB64, createdAt |-> e.CreatedAt,
     modifiedAt |-> e.ModifiedAt]
UnmarshalEntry(o) ==
    [ID |-> o.id, Title |-> o.title, NonceB64 |-> o.nonce,
     CipherB64 |-> o.ciphertext, CreatedAt |-> o.createdAt,
     ModifiedAt |-> o.modifiedAt]

\* encoding/json of keyManager: its two fields are unexported, so Marshal
\* writes the empty object and Unmarshal leaves the zero value
MarshalKeyManager(km) == EmptyObject
UnmarshalKeyManager(o) == ZeroKeyManager

\* json.MarshalIndent(v): the object Save writes
MarshalVault(v) ==
    [t |-> "object",
     obj |-> [kdf |-> [N |-> v.KDF.N, r |-> v.KDF.R, p |-> v.KDF.P, keyLen |-> v.KDF.L],
              salt |-> v.SaltB64,
              keyManager |-> MarshalKeyManager(v.KeyMgr),
              verify_nonce |-> v.VerifyNnc,
              verify_ct |-> v.VerifyCt,
              entries |-> [id \in DOMAIN v.Entries |-> MarshalEntry(v.Entries[id])]]]

Has(o, name) == name \in DOMAIN o

\* json.Unmarshal(data, &v) into a Vault: keys of the struct that the
\* object lacks keep their zero value, other keys are ignored
UnmarshalVault(o) ==
    [KDF |-> IF Has(o, "kdf")
             THEN [N |-> o.kdf.N, R |-> o.kdf.r, P |-> o.kdf.p, L |-> o.kdf.keyLen]
             ELSE ZeroKDF,
     SaltB64 |-> IF Has(o, "salt") THEN o.salt ELSE EmptyString,
     KeyMgr |-> IF Has(o, "keyManager") THEN UnmarshalKeyManager(o.keyManager)
                ELSE ZeroKeyManager,
     VerifyNnc |-> IF Has(o, "verify_nonce") THEN o.verify_nonce ELSE EmptyString,
     VerifyCt |-> IF Has(o, "verify_ct") THEN o.verify_ct ELSE EmptyString,
     Entries |-> IF Has(o, "entries")
                 THEN [id \in DOMAIN o.entries |-> UnmarshalEntry(o.entries[id])]
                 ELSE EmptyMap]

\* Load(path) on the file content: [err, val |-> the vault]
Load(file) ==
    IF file = NoFile THEN [err |-> <<"open: no such file">>, val |-> NoVault]
    ELSE IF file.t # "object" THEN [err |-> <<"invalid character">>, val |-> NoVault]
    ELSE [err |-> NoErr, val |-> UnmarshalVault(file.obj)]

\* ---------------------------------------------------------------- entries
NoPlain == [nil |-> TRUE]
NoEntry == [nil |-> TRUE]
Opt(s) == IF s = "" THEN <<>> ELSE <<s>>
UnOpt(o) == IF o = <<>> THEN "" ELSE o[1]

\* length of the JSON text of a PlainEntry (a timestamp takes 30 characters)
JsonLen(p) ==
    120 + Len(p.Username) + Len(p.Password)
        + (IF p.URL = "" THEN 0 ELSE 9 + Len(p.URL))
        + (IF p.Notes = "" THEN 0 ELSE 11 + Len(p.Notes))

\* json.Marshal(plain): url and notes carry omitempty
MarshalPlain(p) ==
    [t |-> "json", n |-> JsonLen(p),
     obj |-> [username |-> p.Username, password |-> p.Password,
              url |-> Opt(p.URL), notes |-> Opt(p.Notes),
              createdAt |-> p.CreatedAt, modifiedAt |-> p.ModifiedAt]]

UnmarshalPlain(b) ==
    IF b.t # "json" THEN [err |-> <<"invalid character">>, val |-> NoPlain]
    ELSE [err |-> NoErr,
          val |-> [Username |-> b.obj.username, Password |-> b.obj.password,
                   URL |-> UnOpt(b.obj.url), Notes |-> UnOpt(b.obj.notes),
                   CreatedAt |-> b.obj.createdAt, ModifiedAt |-> b.obj.modifiedAt]]

\* a read of crypto/rand that returned an error
NoRand == 0

\* AddEntry: [err, val |-> the vault after the call, id]
AddEntry(v, k, title, f, iv, nv, now) ==
    IF v = NoVault THEN [err |-> <<"nil vault">>, val |-> v, id |-> NoBytes]
    ELSE IF iv = NoRand
    THEN [err |-> <<"crypto/rand">>, val |-> v, id |-> NoBytes]
    ELSE IF nv = NoRand
    THEN [err |-> <<"failed to generate random nonce", "crypto/rand">>,
          val |-> v, id |-> NoBytes]
    ELSE
    LET id == RawURLEncode(randomBytes("id", idSize, iv))
        plain == [Username |-> f.Username, Password |-> f.Password, URL |-> f.URL,
                  Notes |-> f.Notes, CreatedAt |-> now, ModifiedAt |-> now]
        blob == MarshalPlain(plain)
        nonce == GenerateNonce(nonceSize, nv)
        entryKey == deriveEntryKey(k, id)
        ct == EncryptAESGCM(entryKey.val, nonce, blob, IdBytes(id))
    IN  IF ct.err # NoErr THEN [err |-> ct.err, val |-> v, id |-> NoBytes]
        ELSE [err |-> NoErr,
              val |-> [v EXCEPT !.Entries =
                         Put(@, id, [ID |-> id, Title |-> title,
                                     NonceB64 |-> B64Encode(nonce),
                                     CipherB64 |-> B64Encode(ct.val),
                                     CreatedAt |-> now, ModifiedAt |-> now])],
              id |-> id]

\* the sequences that hold each element of S once
Perms(S) ==
    {p \in [1..Cardinality(S) -> S] : \A i, j \in 1..Cardinality(S) : i # j => p[i] # p[j]}

\* List: the slices a call can return (the order of a map range is not fixed)
List(v) == {[i \in 1..Len(p) |-> v.Entries[p[i]]] : p \in Perms(DOMAIN v.Entries)}

\* GetDecrypted: [err, plain, meta]
GetDecrypted(v, k, id) ==
    IF id \notin DOMAIN v.Entries
    THEN [err |-> <<"no such id">>, plain |-> NoPlain, meta |-> NoEntry]
    ELSE
    LET e == v.Entries[id]
        nonce == B64Decode(e.NonceB64)
        ct == B64Decode(e.CipherB64)
        entryKey == deriveEntryKey(k, id)
    IN  IF nonce.err # NoErr
        THEN [err |-> <<"bad nonce">> \o nonce.err, plain |-> NoPlain, meta |-> NoEntry]
        ELSE IF ct.err # NoErr
        THEN [err |-> <<"bad ciphertext">> \o ct.err, plain |-> NoPlain, meta |-> NoEntry]
        ELSE LET pt == DecryptAESGCM(entryKey.val, nonce.val, ct.val, IdBytes(id))
             IN  IF pt.err # NoErr
                 THEN [err |-> pt.err, plain |-> NoPlain, meta |-> NoEntry]
                 ELSE LET plain == UnmarshalPlain(pt.val)
                      IN  IF plain.err # NoErr
                          THEN [err |-> plain.err, plain |-> NoPlain, meta |-> NoEntry]
                          ELSE [err |-> NoErr, plain |-> plain.val, meta |-> e]

\* UpdateEntry that leaves the ModifiedAt of the stored entry as it was
UpdateEntryStaleWrapper(v, k, id, u, nv, now) ==
    LET got == GetDecrypted(v, k, id)
    IN  IF got.err # NoErr THEN [err |-> got.err, val |-> v]
        ELSE
        LET plain == [got.plain EXCEPT !.Username = IF u.username = <<>> THEN @ ELSE u.username[1],
                                       !.Password = IF u.password = <<>> THEN @ ELSE u.password[1],
                                       !.URL = IF u.url = <<>> THEN @ ELSE u.url[1],
                                       !.Notes = IF u.notes = <<>> THEN @ ELSE u.notes[1],
                                       !.ModifiedAt = now]
            nonce == GenerateNonce(nonceSize, nv)
            ct == EncryptAESGCM(deriveEntryKey(k, id).val, nonce, MarshalPlain(plain), IdBytes(id))
        IN  [err |-> NoErr,
             val |-> [v EXCEPT !.Entries =
                        Put(@, id, [got.meta EXCEPT !.Title = IF u.title = <<>> THEN @ ELSE u.title[1],
                                                    !.NonceB64 = B64Encode(nonce),
                                                    !.CipherB64 = B64Encode(ct.val)])]]

\* UpdateEntry that seals under the nonce the entry is stored with
UpdateEntryKeepNonce(v, k, id, u, nv, now) ==
    LET got == GetDecrypted(v, k, id)
    IN  IF got.err # NoErr THEN [err |-> got.err, val |-> v]
        ELSE
        LET plain == [got.plain EXCEPT !.Username = IF u.username = <<>> THEN @ ELSE u.username[1],
                                       !.Password = IF u.password = <<>> THEN @ ELSE u.password[1],
                                       !.URL = IF u.url = <<>> THEN @ ELSE u.url[1],
                                       !.Notes = IF u.notes = <<>> THEN @ ELSE u.notes[1],
                                       !.ModifiedAt = now]
            nonce == B64Decode(got.meta.NonceB64).val
            ct == EncryptAESGCM(deriveEntryKey(k, id).val, nonce, MarshalPlain(plain), IdBytes(id))
        IN  [err |-> NoErr,
             val |-> [v EXCEPT !.Entries =
                        Put(@, id, [got.meta EXCEPT !.Title = IF u.title = <<>> THEN @ ELSE u.title[1],
                                                    !.CipherB64 = B64Encode(ct.val),
                                                    !.ModifiedAt = now])]]

\* UpdateEntry that stores the new title and time before it reads the nonce
UpdateEntryEarlyWrite(v, k, id, u, nv, now) ==
    LET got == GetDecrypted(v, k, id)
    IN  IF got.err # NoErr THEN [err |-> got.err, val |-> v]
        ELSE
        LET plain == [got.plain EXCEPT !.Username = IF u.username = <<>> THEN @ ELSE u.username[1],
                                       !.Password = IF u.password = <<>> THEN @ ELSE u.password[1],
                                       !.URL = IF u.url = <<>> THEN @ ELSE u.url[1],
                                       !.Notes = IF u.notes = <<>> THEN @ ELSE u.notes[1],
                                       !.ModifiedAt = now]
            early == [v EXCEPT !.Entries =
                        Put(@, id, [got.meta EXCEPT !.Title = IF u.title = <<>> THEN @ ELSE u.title[1],
                                                    !.ModifiedAt = now])]
            nonce == GenerateNonce(nonceSize, nv)
            ct == EncryptAESGCM(deriveEntryKey(k, id).val, nonce, MarshalPlain(plain), IdBytes(id))
        IN  IF nv = NoRand
            THEN [err |-> <<"failed to generate random nonce", "crypto/rand">>, val |-> early]
            ELSE [err |-> NoErr,
                  val |-> [early EXCEPT !.Entries =
                             Put(@, id, [early.Entries[id] EXCEPT !.NonceB64 = B64Encode(nonce),
                                                                  !.CipherB64 = B64Encode(ct.val)])]]

\* an update: each of the five pointers is nil (<<>>) or points to a string (<<s>>)
Updates ==
    { [title |-> <<>>, username |-> <<>>, password |-> <<"N3w!">>, url |-> <<>>, notes |-> <<>>],
      [title |-> <<"Work">>, username |-> <<"carol">>, password |-> <<>>, url |-> <<"">>, notes |-> <<>>] }

Set(old, ptr) == IF ptr = <<>> THEN old ELSE ptr[1]

\* UpdateEntry: [err, val |-> the vault after the call]
UpdateEntry(v, k, id, u, nv, now) ==
    LET got == GetDecrypted(v, k, id)
    IN  IF got.err # NoErr THEN [err |-> got.err, val |-> v]
        ELSE
        LET plain == [got.plain EXCEPT !.Username = Set(@, u.username),
                                       !.Password = Set(@, u.password),
                                       !.URL = Set(@, u.url),
                                       !.Notes = Set(@, u.notes),
                                       !.ModifiedAt = now]
            blob == MarshalPlain(plain)
            nonce == GenerateNonce(nonceSize, nv)
            entryKey == deriveEntryKey(k, id)
            ct == EncryptAESGCM(entryKey.val, nonce, blob, IdBytes(id))
        IN  IF nv = NoRand
            THEN [err |-> <<"failed to generate random nonce", "crypto/rand">>, val |-> v]
            ELSE IF ct.err # NoErr THEN [err |-> ct.err, val |-> v]
            ELSE [err |-> NoErr,
                  val |-> [v EXCEPT !.Entries =
                             Put(@, id, [got.meta EXCEPT !.Title = Set(@, u.title),
                                                         !.ModifiedAt = now,
                                                         !.NonceB64 = B64Encode(nonce),
                                                         !.CipherB64 = B64Encode(ct.val)])]]

\* ------------------------------------------------------------- searches
\* a title or query as its sequence of characters
Chars(str) ==
    CASE str = "" -> <<>>
      [] str = "GitHub" -> <<"G", "i", "t", "H", "u", "b">>
      [] str = "Mail" -> <<"M", "a", "i", "l">>
      [] str = "Work" -> <<"W", "o", "r", "k">>

UpperCase == <<"A", "B", "C", "D", "E", "F", "G", "H", "I", "J", "K", "L", "M",
               "N", "O", "P", "Q", "R", "S", "T", "U", "V", "W", "X", "Y", "Z">>
LowerCase == <<"a", "b", "c", "d", "e", "f", "g", "h", "i", "j", "k", "l", "m",
               "n", "o", "p", "q", "r", "s", "t", "u", "v", "w", "x", "y", "z">>
WhiteSpace == {" ", "\t", "\n"}

\* unicode.ToLower on the upper case letters
LowerOf ==
    [c \in {UpperCase[n] : n \in 1..Len(UpperCase)} |->
        LowerCase[CHOOSE n \in 1..Len(UpperCase) : UpperCase[n] = c]]

\* strings.ToLower
ToLower(cs) == [i \in 1..Len(cs) |-> IF cs[i] \in DOMAIN LowerOf THEN LowerOf[cs[i]] ELSE cs[i]]

\* strings.TrimSpace
RECURSIVE TrimSpace(_)
TrimSpace(cs) ==
    IF cs = <<>> THEN cs
    ELSE IF cs[1] \in WhiteSpace THEN TrimSpace(Tail(cs))
    ELSE IF cs[Len(cs)] \in WhiteSpace THEN TrimSpace(SubSeq(cs, 1, Len(cs) - 1))
    ELSE cs

\* strings.Contains
Contains(cs, sub) ==
    \E i \in 0..(Len(cs) - Len(sub)) : SubSeq(cs, i + 1, i + Len(sub)) = sub

\* time.Time.After
After(t, u) == t > u

\* sort.Slice(out, func(i, j) { return out[i].ModifiedAt.After(out[j].ModifiedAt) })
\* on the matches appended in the order of the map range: the slices it can
\* leave, in which no element is before one that is after it in time
SortSlice(S) ==
    {l \in {[i \in 1..Len(p) |-> p[i]] : p \in Perms(S)} :
        \A i, j \in 1..Len(l) : i < j => ~After(l[j].ModifiedAt, l[i].ModifiedAt)}

\* SearchTitles that compares the title as it is stored
SearchTitlesCaseSensitive(v, query) ==
    LET q == ToLower(TrimSpace(query))
    IN  IF q = <<>> THEN {<<>>}
        ELSE SortSlice({v.Entries[id] : id \in {x \in DOMAIN v.Entries :
                            Contains(Chars(v.Entries[x].Title), q)}})

\* SearchTitles: the slices a call can return
SearchTitles(v, query) ==
    LET q == ToLower(TrimSpace(query))
    IN  IF q = <<>> THEN {<<>>}
        ELSE SortSlice({v.Entries[id] : id \in {x \in DOMAIN v.Entries :
                            Contains(ToLower(Chars(v.Entries[x].Title)), q)}})

\* FindByExactTitle: the slices a call can return
FindByExactTitle(v, title) ==
    LET t == ToLower(TrimSpace(title))
    IN  IF t = <<>> THEN {<<>>}
        ELSE SortSlice({v.Entries[id] : id \in {x \in DOMAIN v.Entries :
                            ToLower(Chars(v.Entries[x].Title)) = t}})

\* Delete that reports the removal and keeps the entry
DeleteKeeps(v, id) ==
    IF id \notin DOMAIN v.Entries THEN [ok |-> FALSE, val |-> v]
    ELSE [ok |-> TRUE, val |-> v]

\* Delete that reports a removal for every id
DeleteAlwaysTrue(v, id) ==
    [ok |-> TRUE, val |-> [v EXCEPT !.Entries = [x \in (DOMAIN @) \ {id} |-> @[x]]]]

\* Delete: [ok, val |-> the vault after the call]
Delete(v, id) ==
    IF id \notin DOMAIN v.Entries THEN [ok |-> FALSE, val |-> v]
    ELSE [ok |-> TRUE, val |-> [v EXCEPT !.Entries = Remove(@, id)]]

\* ------------------------------------------------------------- vault_v2
\* CreateV2: the vault of the second format (no verification block, a version)
CreateV2(masterPassword, sv, mv, wv) ==
    LET salt == randomBytes("salt", saltSize, sv)
        masterKey == generateMasterKey(mv)
        km == wrapMasterKey(masterKey, masterPassword, salt, wv)
    IN  IF km.err # NoErr THEN [err |-> <<"failed to wrap master key">> \o km.err,
                                val |-> NoVault, key |-> NoBytes]
        ELSE [err |-> NoErr,
              val |-> [KDF |-> DefaultKDF, SaltB64 |-> B64Encode(salt),
                       KeyMgr |-> km.val, Entries |-> EmptyMap, Version |-> 2],
              key |-> masterKey]

\* json.MarshalIndent of a VaultV2 (SaveV2)
MarshalVaultV2(v) ==
    [t |-> "object",
     obj |-> [kdf |-> [N |-> v.KDF.N, r |-> v.KDF.R, p |-> v.KDF.P, keyLen |-> v.KDF.L],
              salt |-> v.SaltB64,
              keyManager |-> MarshalKeyManager(v.KeyMgr),
              entries |-> [id \in DOMAIN v.Entries |-> MarshalEntry(v.Entries[id])],
              version |-> v.Version]]

UnmarshalVaultV2(o) ==
    [KDF |-> IF Has(o, "kdf")
             THEN [N |-> o.kdf.N, R |-> o.kdf.r, P |-> o.kdf.p, L |-> o.kdf.keyLen]
             ELSE ZeroKDF,
     SaltB64 |-> IF Has(o, "salt") THEN o.salt ELSE EmptyString,
     KeyMgr |-> IF Has(o, "keyManager") THEN UnmarshalKeyManager(o.keyManager)
                ELSE ZeroKeyManager,
     Entries |-> IF Has(o, "entries")
                 THEN [id \in DOMAIN o.entries |-> UnmarshalEntry(o.entries[id])]
                 ELSE EmptyMap,
     Version |-> IF Has(o, "version") THEN o.version ELSE 0]

\* LoadV2(path) on the file content
LoadV2(file) ==
    IF file = NoFile THEN [err |-> <<"open: no such file">>, val |-> NoVault]
    ELSE IF file.t # "object" THEN [err |-> <<"invalid character">>, val |-> NoVault]
    ELSE LET v == UnmarshalVaultV2(file.obj)
         IN  IF v.Version # 2
             THEN [err |-> <<"unsupported vault version">>, val |-> NoVault]
             ELSE [err |-> NoErr, val |-> v]

\* a VaultV2; the methods of Vault and of VaultV2 are called on their own type
IsV2(v) == "Version" \in DOMAIN v

UnlockV2(v, masterPassword) ==
    IF v = NoVault THEN Fail("nil vault")
    ELSE
    LET salt == B64Decode(v.SaltB64)
    IN  IF salt.err # NoErr THEN Wrap("bad salt", salt)
        ELSE LET mk == unwrapMasterKey(v.KeyMgr, masterPassword, salt.val)
             IN  IF mk.err # NoErr THEN Wrap("failed to unwrap master key", mk)
                 ELSE Ok(mk.val)

\* ChangePasswordV2 that wraps the master key under the salt the vault has
ChangePasswordV2KeepSalt(v, currentPassword, newPassword, sv, wv) ==
    LET masterKey == UnlockV2(v, currentPassword)
    IN  IF masterKey.err # NoErr
        THEN [err |-> <<"failed to unlock with current password">> \o masterKey.err, val |-> v]
        ELSE LET km == wrapMasterKey(masterKey.val, newPassword, B64Decode(v.SaltB64).val, wv)
             IN  [err |-> NoErr, val |-> [v EXCEPT !.KeyMgr = km.val]]

\* ChangePasswordV2: [err, val |-> the vault after the call]
ChangePasswordV2(v, currentPassword, newPassword, sv, wv) ==
    LET masterKey == UnlockV2(v, currentPassword)
        salt == randomBytes("salt", saltSize, sv)
    IN  IF masterKey.err # NoErr
        THEN [err |-> <<"failed to unlock with current password">> \o masterKey.err, val |-> v]
        ELSE LET km == wrapMasterKey(masterKey.val, newPassword, salt, wv)
             IN  IF km.err # NoErr
                 THEN [err |-> <<"failed to wrap master key with new password">> \o km.err,
                       val |-> v]
                 ELSE [err |-> NoErr,
                       val |-> [v EXCEPT !.SaltB64 = B64Encode(salt), !.KeyMgr = km.val]]

\* AddEntryV2 and GetDecryptedV2 run the statements of AddEntry and
\* GetDecrypted on the entries of a VaultV2 (the entry key is derived first)
AddEntryV2(v, masterKey, title, f, iv, nv, now) == AddEntry(v, masterKey, title, f, iv, nv, now)
GetDecryptedV2(v, masterKey, id) == GetDecrypted(v, masterKey, id)

\* the version a vault file states: <<>> when it has no version field
FileVersion(file) ==
    IF file.t = "object" /\ Has(file.obj, "version") THEN <<file.obj.version>> ELSE <<>>

\* ------------------------------------------- vault files of other origin
\* Files the program meets that this build did not write: a vault written by
\* a build whose scrypt cost was 16384, vault files of the second format
\* stating version 2 or 3, and a file that is no JSON.
OtherKDF == [N |-> 16384, R |-> 8, P |-> 1, L |-> 32]

OtherBuildVault(pw) ==
    LET salt == randomBytes("salt", saltSize, 1)
        nonce == GenerateNonce(nonceSize, 1)
        k == Scrypt(Bytes(pw), salt, OtherKDF.N, OtherKDF.R, OtherKDF.P, OtherKDF.L).val
        mk == generateMasterKey(1)
    IN  [KDF |-> OtherKDF,
         SaltB64 |-> B64Encode(salt),
         KeyMgr |-> [encryptedMKB64 |-> B64Encode(EncryptAESGCM(k, nonce, mk, NoBytes).val),
                     encryptedMKNonce |-> B64Encode(nonce)],
         VerifyNnc |-> B64Encode(nonce),
         VerifyCt |-> B64Encode(EncryptAESGCM(k, nonce, Bytes(verifyMsg), NoBytes).val),
         Entries |-> EmptyMap]

\* the vault file with another text as its salt, and without its entries
WithSalt(file, text) == [file EXCEPT !.obj.salt = text]
WithoutEntries(file) ==
    [file EXCEPT !.obj = [x \in (DOMAIN @) \ {"entries"} |-> @[x]]]

ForeignFiles ==
    { [file |-> MarshalVault(OtherBuildVault("hunter2")), pw |-> "hunter2"],
      [file |-> MarshalVaultV2(CreateV2("hunter2", 1, 1, 1).val), pw |-> "hunter2"],
      [file |-> MarshalVaultV2([CreateV2("hunter2", 1, 1, 1).val EXCEPT !.Version = 3]),
       pw |-> "hunter2"],
      [file |-> Garbage, pw |-> ""],
      [file |-> WithSalt(MarshalVault(OtherBuildVault("hunter2")), BadB64), pw |-> "hunter2"],
      [file |-> WithoutEntries(MarshalVault(OtherBuildVault("hunter2"))), pw |-> "hunter2"] }

\* ------------------------------------------------------------- the state
\* the update that supplies no field
NoUpdate == [title |-> <<>>, username |-> <<>>, password |-> <<>>, url |-> <<>>, notes |-> <<>>]

\* what the last call returned: pw is the password given to Create and
\* Unlock and the new password of a password change, old its current
\* password, upd the pointers given to UpdateEntry, out a returned slice, query
\* the string given to a search
R(op, err) ==
    [op |-> op, err |-> err, ok |-> err = NoErr, key |-> NoBytes,
     plain |-> NoPlain, id |-> NoBytes, pw |-> "", old |-> "", upd |-> NoUpdate,
     out |-> <<>>, query |-> <<>>]

\* history of one vault (in memory or in the file): the password it was
\* created or last re-keyed with, its master key, and for each id the fields
\* given to AddEntry/UpdateEntry and the nonce and ciphertext they stored,
\* and the numbers of successful AddEntry and Delete calls
NoHist == [pw |-> "", mk |-> NoBytes, sup |-> EmptyMap, wr |-> EmptyMap,
           added |-> 0, deleted |-> 0]

Min(a, b) == IF a < b THEN a ELSE b

\* A read of crypto/rand: the n-th value of its kind (n = 1, 2, ...), and
\* the counters after reading n values of a kind
Fresh(kind, n) == drawn[kind] + n
Drew(d, kind, n) == [d EXCEPT ![kind] = @ + n]

\* the ids AddEntry has returned so far and one it has not
KnownIds == {RawURLEncode(randomBytes("id", idSize, iv)) : iv \in 1..(drawn.id + 1)}

\* time.Now(): the clock advances by one tick per call until MaxClock, where
\* later calls read the same time
Tick == Min(clock + 1, MaxClock)

Written(e) == [NonceB64 |-> e.NonceB64, CipherB64 |-> e.CipherB64]
\* the title and the four fields of an entry, as AddEntry takes them and
\* GetDecrypted returns them
Supplied(title, plain) ==
    [Title |-> title, Username |-> plain.Username, Password |-> plain.Password,
     URL |-> plain.URL, Notes |-> plain.Notes]

\* an empty clipboard, no goroutine of secureClipboardCopy, no copy made
NoGui == [clipboard |-> "", timers |-> <<>>, copies |-> 0, erased |-> <<>>]

\* the base64 texts of a vault that hold the output of a Seal
SealTexts(v) ==
    {v.KeyMgr.encryptedMKB64}
        \cup (IF "VerifyCt" \in DOMAIN v THEN {v.VerifyCt} ELSE {})
        \cup {v.Entries[id].CipherB64 : id \in DOMAIN v.Entries}

\* the (key, nonce) pairs of the Seals whose output a vault holds
SealsOf(v) ==
    IF v = NoVault THEN {}
    ELSE {<<B64Decode(text).val.key, B64Decode(text).val.nonce>> :
            text \in {x \in SealTexts(v) : x.t = "b64" /\ x.of.t = "gcm"}}

\* the history h after a call that took the vault from before to after and
\* called EncryptAESGCM n times
Sealing(h, before, after, n) ==
    [h EXCEPT !.seals = @ \cup (SealsOf(after) \ SealsOf(before)), !.nseals = @ + n]

Init ==
    /\ vault = NoVault
    /\ key = NoBytes
    /\ disk = NoFile
    /\ ret = R("none", NoErr)
    /\ clock = 1
    /\ steps = 0
    /\ drawn = [salt |-> 0, mk |-> 0, nonce |-> 0, id |-> 0]
    /\ hist = [mem |-> NoHist, disk |-> NoHist, seals |-> {}, nseals |-> 0]
    /\ gui = NoGui

\* the state after Create returned r for the password pw
CreateStep(r, pw) ==
    /\ vault' = r.val
    /\ key' = r.key
    /\ ret' = [R("Create", r.err) EXCEPT !.key = r.key, !.pw = pw]
    /\ drawn' = Drew(Drew(Drew(drawn, "salt", 1), "mk", 1), "nonce", 2)
    /\ hist' = Sealing([hist EXCEPT !.mem = [NoHist EXCEPT !.pw = pw, !.mk = r.key]],
                       vault, vault', 2)

\* v, key, err := Create(masterPassword). A run follows one vault from its
\* creation.
DoCreate ==
    /\ vault = NoVault
    /\ \E pw \in Passwords :
         CreateStep(Create(pw, Fresh("salt", 1), Fresh("mk", 1),
                           Fresh("nonce", 1), Fresh("nonce", 2)), pw)
    /\ UNCHANGED <<disk, clock, steps>>
    /\ UNCHANGED gui

\* key, err := v.Unlock(masterPassword); the caller keeps a returned key
DoUnlock ==
    /\ ~IsV2(vault)
    /\ \E pw \in Passwords :
         LET r == Unlock(vault, pw)
         IN  /\ ret' = [R("Unlock", r.err) EXCEPT !.key = r.val, !.pw = pw]
             /\ key' = IF r.err = NoErr THEN r.val ELSE key
    /\ UNCHANGED <<vault, disk, clock, steps, drawn, hist>>
    /\ UNCHANGED gui

\* the caller goes on with a key that is not the one Create or Unlock
\* returned for this vault: no key, the key of another vault, or the key
\* derived from the password
DoTakeKey ==
    /\ ~IsV2(vault)
    /\ steps < MaxSteps
    /\ vault # NoVault
    /\ key' \in {NoBytes, generateMasterKey(Fresh("mk", 1)),
                 UnlockDerivedKey(vault, hist.mem.pw).val} \ {key}
    /\ drawn' = Drew(drawn, "mk", 1)
    /\ ret' = R("none", NoErr)
    /\ steps' = steps + 1
    /\ UNCHANGED <<vault, disk, clock, hist>>
    /\ UNCHANGED gui

\* err := v.Save(path)
DoSave ==
    /\ ~IsV2(vault)
    /\ steps < MaxSteps
    /\ vault # NoVault
    /\ disk' = MarshalVault(vault)
    /\ ret' = R("Save", NoErr)
    /\ hist' = [hist EXCEPT !.disk = hist.mem]
    /\ steps' = steps + 1
    /\ UNCHANGED <<vault, key, clock, drawn>>
    /\ UNCHANGED gui

\* v, err := Load(path); on an error the caller keeps the vault it had
DoLoad ==
    /\ ~IsV2(vault)
    /\ steps < MaxSteps
    /\ LET r == Load(disk)
       IN  /\ ret' = R("Load", r.err)
           /\ vault' = IF r.err = NoErr THEN r.val ELSE vault
           /\ hist' = IF r.err = NoErr THEN [hist EXCEPT !.mem = hist.disk] ELSE hist
    /\ steps' = steps + 1
    /\ UNCHANGED <<key, disk, clock, drawn>>
    /\ UNCHANGED gui

\* v, err := LoadV2(path); the caller of this model keeps no VaultV2
DoLoadV2 ==
    /\ steps < MaxSteps
    /\ ret' = R("LoadV2", LoadV2(disk).err)
    /\ steps' = steps + 1
    /\ UNCHANGED <<vault, key, disk, clock, drawn, hist>>
    /\ UNCHANGED gui

\* a vault file of another origin is put at the path
DoPlaceFile ==
    /\ steps < MaxSteps
    /\ \E f \in ForeignFiles :
         /\ disk' = f.file
         /\ hist' = [hist EXCEPT !.disk = [NoHist EXCEPT !.pw = f.pw]]
    /\ ret' = R("none", NoErr)
    /\ steps' = steps + 1
    /\ UNCHANGED <<vault, key, clock, drawn>>
    /\ UNCHANGED gui

\* the state after AddEntry returned r for the fields f
AddEntryStep(r, f) ==
    /\ vault' = r.val
    /\ ret' = [R("AddEntry", r.err) EXCEPT !.id = r.id]
    /\ drawn' = Drew(Drew(drawn, "id", 1), "nonce", 1)
    /\ hist' = IF r.err # NoErr THEN hist
               ELSE Sealing([hist EXCEPT
                               !.mem.sup = Put(@, r.id, Supplied(f.Title, f)),
                               !.mem.wr = Put(@, r.id, Written(r.val.Entries[r.id])),
                               !.mem.added = @ + 1],
                            vault, vault', 1)

\* id, err := v.AddEntry(key, title, username, password, url, notes), where
\* time.Now() returns now
AddEntryAt(now) ==
    /\ ~IsV2(vault)
    /\ steps < MaxSteps
    /\ vault # NoVault
    /\ \E f \in NewEntries :
         AddEntryStep(AddEntry(vault, key, f.Title, f, Fresh("id", 1),
                               Fresh("nonce", 1), now), f)
    /\ clock' = now
    /\ steps' = steps + 1
    /\ UNCHANGED <<key, disk>>
    /\ UNCHANGED gui

DoAddEntry == AddEntryAt(Tick)

\* AddEntry within the tick of the preceding reading of the clock
DoAddEntrySameTick == AddEntryAt(clock)

\* plain, meta, err := v.GetDecrypted(key, id), for a stored or an unknown id
DoGetDecrypted ==
    /\ ~IsV2(vault)
    /\ vault # NoVault
    /\ \E id \in (DOMAIN vault.Entries) \cup KnownIds :
         LET r == GetDecrypted(vault, key, id)
         IN  ret' = [R("GetDecrypted", r.err) EXCEPT !.plain = r.plain, !.id = id]
    /\ UNCHANGED <<vault, key, disk, clock, steps, drawn, hist>>
    /\ UNCHANGED gui

\* the state after UpdateEntry returned r for the entry id and the update u
UpdateEntryStep(r, id, u) ==
    /\ vault' = r.val
    /\ ret' = [R("UpdateEntry", r.err) EXCEPT !.id = id, !.upd = u]
    /\ drawn' = IF r.err = NoErr THEN Drew(drawn, "nonce", 1) ELSE drawn
    /\ clock' = IF r.err = NoErr THEN Tick ELSE clock
    /\ hist' = IF r.err # NoErr THEN hist
               ELSE Sealing([hist EXCEPT
                               !.mem.sup = Put(@, id,
                                               Supplied(vault'.Entries[id].Title,
                                                        GetDecrypted(vault', key, id).plain)),
                               !.mem.wr = Put(@, id, Written(vault'.Entries[id]))],
                            vault, vault', 1)

\* err := v.UpdateEntry(key, id, title, username, password, url, notes)
DoUpdateEntry ==
    /\ ~IsV2(vault)
    /\ steps < MaxSteps
    /\ vault # NoVault
    /\ \E id \in (DOMAIN vault.Entries) \cup KnownIds, u \in Updates,
          nv \in {Fresh("nonce", 1), NoRand} :
         UpdateEntryStep(UpdateEntry(vault, key, id, u, nv, Tick), id, u)
    /\ steps' = steps + 1
    /\ UNCHANGED <<key, disk>>
    /\ UNCHANGED gui

\* ok := v.Delete(id)
DoDelete ==
    /\ ~IsV2(vault)
    /\ steps < MaxSteps
    /\ vault # NoVault
    /\ \E id \in (DOMAIN vault.Entries) \cup KnownIds :
         LET r == Delete(vault, id)
         IN  /\ vault' = r.val
             /\ ret' = [R("Delete", IF r.ok THEN NoErr ELSE <<"false">>) EXCEPT !.id = id]
             /\ hist' = IF r.ok THEN [hist EXCEPT !.mem.sup = Remove(@, id),
                                                  !.mem.wr = Remove(@, id),
                                                  !.mem.deleted = @ + 1]
                        ELSE hist
    /\ steps' = steps + 1
    /\ UNCHANGED <<key, disk, clock, drawn>>
    /\ UNCHANGED gui

\* onChangePassword that does not verify the current password
ChangePasswordUnverified(v, k, oldPw, newPw, sv, wv, vv) ==
    IF newPw = "" THEN [err |-> <<"New password cannot be empty">>, val |-> v, saved |-> FALSE]
    ELSE LET nv == CreateWithExistingKey(newPw, k, sv, wv, vv)
         IN  [err |-> NoErr, val |-> [nv.val EXCEPT !.Entries = v.Entries], saved |-> TRUE]

\* onChangePassword that wraps a newly generated master key
ChangePasswordNewKey(v, k, oldPw, newPw, sv, wv, vv) ==
    IF newPw = "" THEN [err |-> <<"New password cannot be empty">>, val |-> v, saved |-> FALSE]
    ELSE IF Unlock(v, oldPw).err # NoErr
    THEN [err |-> <<"Current password is incorrect">>, val |-> v, saved |-> FALSE]
    ELSE LET nv == CreateWithExistingKey(newPw, generateMasterKey(sv + 1), sv, wv, vv)
         IN  [err |-> NoErr, val |-> [nv.val EXCEPT !.Entries = v.Entries], saved |-> TRUE]

\* PasswordManagerWindow.onChangePassword, the Change button: the outcome of
\* the handler on mw.vault, mw.key and the file
ChangePassword(v, k, oldPw, newPw, sv, wv, vv) ==
    IF newPw = "" THEN [err |-> <<"New password cannot be empty">>, val |-> v, saved |-> FALSE]
    ELSE IF Unlock(v, oldPw).err # NoErr
    THEN [err |-> <<"Current password is incorrect">>, val |-> v, saved |-> FALSE]
    ELSE LET nv == CreateWithExistingKey(newPw, k, sv, wv, vv)
         IN  IF nv.err # NoErr
             THEN [err |-> <<"Failed to create new vault">> \o nv.err, val |-> v,
                   saved |-> FALSE]
             ELSE [err |-> NoErr, val |-> [nv.val EXCEPT !.Entries = v.Entries],
                   saved |-> TRUE]

\* the state after the password change of the window returned r
ChangePasswordStep(r, oldPw, newPw) ==
    /\ vault' = r.val
    /\ disk' = IF r.saved THEN MarshalVault(r.val) ELSE disk
    /\ ret' = [R("ChangePassword", r.err) EXCEPT !.pw = newPw, !.old = oldPw]
    /\ drawn' = IF r.err = NoErr
                THEN Drew(Drew(drawn, "salt", 1), "nonce", 2)
                ELSE drawn
    /\ hist' = IF r.err # NoErr THEN hist
               ELSE Sealing([hist EXCEPT !.mem = [hist.mem EXCEPT !.pw = newPw],
                                         !.disk = [hist.mem EXCEPT !.pw = newPw]],
                            vault, vault', 2)

DoChangePassword ==
    /\ ~IsV2(vault)
    /\ steps < MaxSteps
    /\ vault # NoVault
    /\ \E oldPw \in Passwords, newPw \in Passwords :
         ChangePasswordStep(ChangePassword(vault, key, oldPw, newPw, Fresh("salt", 1),
                                           Fresh("nonce", 1), Fresh("nonce", 2)),
                            oldPw, newPw)
    /\ steps' = steps + 1
    /\ UNCHANGED <<key, clock>>
    /\ UNCHANGED gui

\* onEditEntry for the selected entry id, once the dialog was accepted with
\* the fields f and the trimmed title f.Title: [err, val |-> the vault after
\* the handler, id |-> the id AddEntry returned, saved]
onEditEntry(v, k, id, f, iv, nv, now, written) ==
    LET got == GetDecrypted(v, k, id)
    IN  IF got.err # NoErr
        THEN [err |-> <<"Failed to decrypt entry">> \o got.err, val |-> v,
              id |-> NoBytes, saved |-> FALSE]
        ELSE
        LET del == Delete(v, id)
        IN  IF ~del.ok
            THEN [err |-> <<"Failed to update the entry (not found)">>, val |-> v,
                  id |-> NoBytes, saved |-> FALSE]
            ELSE
            LET add == AddEntry(del.val, k, f.Title, f, iv, nv, now)
            IN  IF add.err # NoErr
                THEN [err |-> <<"Failed to update entry">> \o add.err, val |-> add.val,
                      id |-> NoBytes, saved |-> FALSE]
                ELSE IF ~written
                THEN [err |-> <<"Failed to save changes">>, val |-> add.val,
                      id |-> add.id, saved |-> FALSE]
                ELSE [err |-> NoErr, val |-> add.val, id |-> add.id, saved |-> TRUE]

\* the state after onEditEntry returned r for the selected entry id and the
\* fields f: ret.id is the selected entry, ret.key the id the edited entry
\* has after the handler
EditEntryStep(r, id, f) ==
    LET removed == id \notin DOMAIN r.val.Entries
        added == r.id # NoBytes
        h == [hist.mem EXCEPT
                !.sup = IF added THEN Put(Remove(@, id), r.id, Supplied(f.Title, f))
                        ELSE IF removed THEN Remove(@, id) ELSE @,
                !.wr = IF added
                       THEN Put(Remove(@, id), r.id, Written(r.val.Entries[r.id]))
                       ELSE IF removed THEN Remove(@, id) ELSE @,
                !.added = IF added THEN @ + 1 ELSE @,
                !.deleted = IF removed THEN @ + 1 ELSE @]
    IN  /\ vault' = r.val
        /\ ret' = [R("EditEntry", r.err) EXCEPT !.id = id, !.key = r.id]
        /\ disk' = IF r.saved THEN MarshalVault(vault') ELSE disk
        /\ hist' = Sealing([hist EXCEPT !.mem = h,
                                        !.disk = IF r.saved THEN h ELSE hist.disk],
                           vault, vault', IF added THEN 1 ELSE 0)
        /\ drawn' = IF removed THEN Drew(Drew(drawn, "id", 1), "nonce", 1) ELSE drawn

\* mw.onEditEntry(). The reads of crypto/rand in AddEntry and os.WriteFile
\* in Save succeed or return an error.
DoEditEntry ==
    /\ ~IsV2(vault)
    /\ steps < MaxSteps
    /\ vault # NoVault
    /\ key # NoBytes
    /\ \E id \in DOMAIN vault.Entries, f \in NewEntries,
          iv \in {Fresh("id", 1), NoRand}, nv \in {Fresh("nonce", 1), NoRand},
          written \in BOOLEAN :
         EditEntryStep(onEditEntry(vault, key, id, f, iv, nv, Tick, written), id, f)
    /\ clock' = Tick
    /\ steps' = steps + 1
    /\ UNCHANGED key
    /\ UNCHANGED gui

\* entries := v.SearchTitles(query)
DoSearchTitles ==
    /\ ~IsV2(vault)
    /\ vault # NoVault
    /\ \E q \in Queries : \E l \in SearchTitles(vault, q) :
         ret' = [R("SearchTitles", NoErr) EXCEPT !.out = l, !.query = q]
    /\ UNCHANGED <<vault, key, disk, clock, steps, drawn, hist>>
    /\ UNCHANGED gui

\* entries := v.FindByExactTitle(title)
DoFindByExactTitle ==
    /\ ~IsV2(vault)
    /\ vault # NoVault
    /\ \E q \in Queries : \E l \in FindByExactTitle(vault, q) :
         ret' = [R("FindByExactTitle", NoErr) EXCEPT !.out = l, !.query = q]
    /\ UNCHANGED <<vault, key, disk, clock, steps, drawn, hist>>
    /\ UNCHANGED gui

\* entries := v.List()
DoList ==
    /\ ~IsV2(vault)
    /\ vault # NoVault
    /\ \E l \in List(vault) : ret' = [R("List", NoErr) EXCEPT !.out = l]
    /\ UNCHANGED <<vault, key, disk, clock, steps, drawn, hist>>
    /\ UNCHANGED gui

\* the state after CreateV2 returned r for the password pw
CreateV2Step(r, pw) ==
    /\ vault' = r.val
    /\ key' = r.key
    /\ ret' = [R("CreateV2", r.err) EXCEPT !.key = r.key, !.pw = pw]
    /\ drawn' = Drew(Drew(Drew(drawn, "salt", 1), "mk", 1), "nonce", 1)
    /\ hist' = Sealing([hist EXCEPT !.mem = [NoHist EXCEPT !.pw = pw, !.mk = r.key]],
                       vault, vault', 1)

\* ------------------------------------------------ the vault is a VaultV2
\* v, key, err := CreateV2(masterPassword)
DoCreateV2 ==
    /\ vault = NoVault
    /\ \E pw \in Passwords :
         CreateV2Step(CreateV2(pw, Fresh("salt", 1), Fresh("mk", 1), Fresh("nonce", 1)), pw)
    /\ UNCHANGED <<disk, clock, steps>>
    /\ UNCHANGED gui

\* key, err := v.UnlockV2(masterPassword); the caller keeps a returned key
DoUnlockV2 ==
    /\ IsV2(vault)
    /\ \E pw \in Passwords :
         LET r == UnlockV2(vault, pw)
         IN  /\ ret' = [R("UnlockV2", r.err) EXCEPT !.key = r.val, !.pw = pw]
             /\ key' = IF r.err = NoErr THEN r.val ELSE key
    /\ UNCHANGED <<vault, disk, clock, steps, drawn, hist>>
    /\ UNCHANGED gui

\* the state after ChangePasswordV2 returned r
ChangePasswordV2Step(r, oldPw, newPw) ==
    /\ vault' = r.val
    /\ ret' = [R("ChangePasswordV2", r.err) EXCEPT !.pw = newPw, !.old = oldPw]
    /\ drawn' = IF r.err = NoErr
                THEN Drew(Drew(drawn, "salt", 1), "nonce", 1)
                ELSE drawn
    /\ hist' = IF r.err # NoErr THEN hist
               ELSE Sealing([hist EXCEPT !.mem.pw = newPw], vault, vault', 1)

\* err := v.ChangePasswordV2(currentPassword, newPassword)
DoChangePasswordV2 ==
    /\ steps < MaxSteps
    /\ IsV2(vault)
    /\ \E oldPw \in Passwords, newPw \in Passwords :
         ChangePasswordV2Step(ChangePasswordV2(vault, oldPw, newPw, Fresh("salt", 1),
                                               Fresh("nonce", 1)), oldPw, newPw)
    /\ steps' = steps + 1
    /\ UNCHANGED <<key, disk, clock>>
    /\ UNCHANGED gui

\* the state after AddEntryV2 returned r for the fields f
AddEntryV2Step(r, f) ==
    /\ vault' = r.val
    /\ ret' = [R("AddEntryV2", r.err) EXCEPT !.id = r.id]
    /\ drawn' = Drew(Drew(drawn, "id", 1), "nonce", 1)
    /\ hist' = IF r.err # NoErr THEN hist
               ELSE Sealing([hist EXCEPT
                               !.mem.sup = Put(@, r.id, Supplied(f.Title, f)),
                               !.mem.wr = Put(@, r.id, Written(r.val.Entries[r.id])),
                               !.mem.added = @ + 1],
                            vault, vault', 1)

\* id, err := v.AddEntryV2(key, title, username, password, url, notes)
DoAddEntryV2 ==
    /\ steps < MaxSteps
    /\ IsV2(vault)
    /\ \E f \in NewEntries :
         AddEntryV2Step(AddEntryV2(vault, key, f.Title, f, Fresh("id", 1),
                                   Fresh("nonce", 1), Tick), f)
    /\ clock' = Tick
    /\ steps' = steps + 1
    /\ UNCHANGED <<key, disk>>
    /\ UNCHANGED gui

\* plain, meta, err := v.GetDecryptedV2(key, id)
DoGetDecryptedV2 ==
    /\ IsV2(vault)
    /\ \E id \in (DOMAIN vault.Entries) \cup KnownIds :
         LET r == GetDecryptedV2(vault, key, id)
         IN  ret' = [R("GetDecryptedV2", r.err) EXCEPT !.plain = r.plain, !.id = id]
    /\ UNCHANGED <<vault, key, disk, clock, steps, drawn, hist>>
    /\ UNCHANGED gui

\* err := v.SaveV2(path)
DoSaveV2 ==
    /\ steps < MaxSteps
    /\ IsV2(vault)
    /\ disk' = MarshalVaultV2(vault)
    /\ ret' = R("SaveV2", NoErr)
    /\ hist' = [hist EXCEPT !.disk = hist.mem]
    /\ steps' = steps + 1
    /\ UNCHANGED <<vault, key, clock, drawn>>
    /\ UNCHANGED gui

\* v, err := LoadV2(path), by a caller that holds a VaultV2 and keeps the
\* loaded one
DoOpenV2 ==
    /\ steps < MaxSteps
    /\ IsV2(vault)
    /\ LET r == LoadV2(disk)
       IN  /\ ret' = R("LoadV2", r.err)
           /\ vault' = IF r.err = NoErr THEN r.val ELSE vault
           /\ hist' = IF r.err = NoErr THEN [hist EXCEPT !.mem = hist.disk] ELSE hist
    /\ steps' = steps + 1
    /\ UNCHANGED <<key, disk, clock, drawn>>
    /\ UNCHANGED gui

\* ------------------------------------------------- altered stored entries
\* Entries is an exported map of records of exported strings, written as
\* they are by Save and read back as they are by Load: a slot holds whatever
\* a caller or an edited vault file put there. Each action alters one entry
\* that still is as AddEntry/UpdateEntry wrote it.
Intact(id) == id \in DOMAIN hist.mem.wr /\ Written(vault.Entries[id]) = hist.mem.wr[id]

\* the stored nonce or ciphertext decodes to other bytes: one bit flipped,
\* one byte appended or one byte cut off
DoAlterBytes ==
    /\ steps < MaxSteps
    /\ vault # NoVault
    /\ \E id \in DOMAIN vault.Entries, field \in {"NonceB64", "CipherB64"},
          how \in {"flip", "extend", "truncate"} :
         /\ Intact(id)
         /\ vault' = [vault EXCEPT !.Entries[id][field] =
                         B64Encode(Mod(B64Decode(@).val, how))]
    /\ ret' = R("none", NoErr)
    /\ steps' = steps + 1
    /\ UNCHANGED <<key, disk, clock, drawn, hist>>
    /\ UNCHANGED gui

\* the stored text of the nonce or ciphertext changes: a bit of the unused
\* low bits of its last character, an appended line break, or a bit that
\* leaves a character outside the base64 alphabet
DoAlterText ==
    /\ steps < MaxSteps
    /\ vault # NoVault
    /\ \E id \in DOMAIN vault.Entries, field \in {"NonceB64", "CipherB64"},
          how \in {"slack", "newline", "illegal"} :
         /\ Intact(id)
         /\ how = "slack" => HasSlack(vault.Entries[id][field])
         /\ vault' = [vault EXCEPT !.Entries[id][field] =
                         CASE how = "slack" -> [@ EXCEPT !.slack = 1]
                           [] how = "newline" -> [@ EXCEPT !.nl = 1]
                           [] how = "illegal" -> BadB64]
    /\ ret' = R("none", NoErr)
    /\ steps' = steps + 1
    /\ UNCHANGED <<key, disk, clock, drawn, hist>>
    /\ UNCHANGED gui

\* the id of an entry with one bit flipped
FlipId(id) == RawURLEncode(Mod(id.of, "flip"))

\* one bit of the id of an entry flips: the entry moves to the slot of the
\* other id (where = "key"), or only its ID field changes (where = "field")
DoAlterId ==
    /\ steps < MaxSteps
    /\ vault # NoVault
    /\ \E id \in DOMAIN vault.Entries, where \in {"key", "field"} :
         /\ Intact(id)
         /\ vault.Entries[id].ID = id
         /\ vault' = IF where = "key"
                     THEN [vault EXCEPT !.Entries =
                             Put(Remove(@, id), FlipId(id), [@[id] EXCEPT !.ID = FlipId(id)])]
                     ELSE [vault EXCEPT !.Entries[id].ID = FlipId(id)]
    /\ ret' = R("none", NoErr)
    /\ steps' = steps + 1
    /\ UNCHANGED <<key, disk, clock, drawn, hist>>
    /\ UNCHANGED gui

\* the nonce and ciphertext of entry id1 are put in the slot of entry id2
DoTransplant ==
    /\ steps < MaxSteps
    /\ vault # NoVault
    /\ \E id1 \in DOMAIN vault.Entries, id2 \in DOMAIN vault.Entries :
         /\ id1 # id2
         /\ Intact(id1)
         /\ Intact(id2)
         /\ vault' = [vault EXCEPT !.Entries[id2].NonceB64 = vault.Entries[id1].NonceB64,
                                   !.Entries[id2].CipherB64 = vault.Entries[id1].CipherB64]
    /\ ret' = R("none", NoErr)
    /\ steps' = steps + 1
    /\ UNCHANGED <<key, disk, clock, drawn, hist>>
    /\ UNCHANGED gui

\* ------------------------------------------------------- specifications
\* the operations of the vault and the password change of the GUI
Next ==
    \/ DoCreate
    \/ DoUnlock
    \/ DoSave
    \/ DoLoad
    \/ DoAddEntry
    \/ DoGetDecrypted
    \/ DoUpdateEntry
    \/ DoDelete
    \/ DoChangePassword

Spec == Init /\ [][Next]_vars

\* the same, on stored entries that can be altered
NextTamper ==
    \/ Next
    \/ DoAlterBytes
    \/ DoAlterText
    \/ DoAlterId
    \/ DoTransplant

SpecTamper == Init /\ [][NextTamper]_vars

\* the same, on vault files of any origin
NextFiles ==
    \/ Next
    \/ DoPlaceFile
    \/ DoLoadV2

SpecFiles == Init /\ [][NextFiles]_vars

\* a run follows a vault of the first format or one of the second format
NextChange ==
    \/ Next
    \/ DoCreateV2
    \/ DoUnlockV2
    \/ DoChangePasswordV2
    \/ DoAddEntryV2
    \/ DoGetDecryptedV2
    \/ DoSaveV2
    \/ DoOpenV2

SpecChange == Init /\ [][NextChange]_vars

\* entries are added to a vault in memory and updated, also within one tick
\* of the clock, and searched by title
NextSearch ==
    \/ DoCreate
    \/ DoAddEntry
    \/ DoAddEntrySameTick
    \/ DoUpdateEntry
    \/ DoSearchTitles
    \/ DoFindByExactTitle

SpecSearch == Init /\ [][NextSearch]_vars

\* ------------------------------------------------- package encrypt alone
\* the arguments of one call of EncryptAESGCM, before the call
InitAead ==
    /\ vault = NoVault
    /\ key \in AeadKeys
    /\ disk = NoFile
    /\ ret \in {[op |-> "arguments", nonce |-> n, pt |-> pt, aad |-> a, sealed |-> Ok(NoBytes),
                  dkey |-> NoBytes, dnonce |-> NoBytes, dct |-> NoBytes, daad |-> NoBytes,
                  opened |-> Ok(NoBytes)] :
                    n \in AeadNonces, pt \in AeadPlaintexts, a \in AeadData}
    /\ clock = 1
    /\ steps = 0
    /\ drawn = [salt |-> 0, mk |-> 0, nonce |-> 0, id |-> 0]
    /\ hist = [mem |-> NoHist, disk |-> NoHist, seals |-> {}, nseals |-> 0]
    /\ gui = NoGui

\* ciphertext, err := EncryptAESGCM(key, nonce, plaintext, additionalData)
DoEncryptAESGCM ==
    /\ ret.op = "arguments"
    /\ ret' = [ret EXCEPT !.op = "EncryptAESGCM",
                          !.sealed = EncryptAESGCM(key, ret.nonce, ret.pt, ret.aad)]
    /\ UNCHANGED <<vault, key, disk, clock, steps, drawn, hist>>
    /\ UNCHANGED gui

\* plaintext, err := DecryptAESGCM(key, nonce, ciphertext, additionalData) on
\* the ciphertext EncryptAESGCM returned, with the same or other arguments
DoDecryptAESGCM ==
    /\ ret.op = "EncryptAESGCM"
    /\ \E k \in {key, [t |-> "rand", kind |-> "key", n |-> 16, v |-> 1],
                  [t |-> "rand", kind |-> "key", n |-> 15, v |-> 1], [t |-> "nil"]},
          n \in {ret.nonce, [t |-> "rand", kind |-> "nonce", n |-> 12, v |-> 1],
                 [t |-> "rand", kind |-> "nonce", n |-> 11, v |-> 1], [t |-> "nil"]},
          a \in AeadData \cup {Mod(ret.aad, "flip"), Mod(ret.aad, "truncate"),
                                Mod(ret.aad, "extend")} :
         ret' = [ret EXCEPT !.op = "DecryptAESGCM", !.dkey = k, !.dnonce = n, !.daad = a,
                            !.dct = ret.sealed.val,
                            !.opened = DecryptAESGCM(k, n, ret.sealed.val, a)]
    /\ UNCHANGED <<vault, key, disk, clock, steps, drawn, hist>>
    /\ UNCHANGED gui

NextAead ==
    \/ DoEncryptAESGCM
    \/ DoDecryptAESGCM

SpecAead == InitAead /\ [][NextAead]_vars

\* the operations of the vault, called with the key Create or Unlock returned
\* or with another key
NextKeys ==
    \/ Next
    \/ DoTakeKey

SpecKeys == Init /\ [][NextKeys]_vars

\* updates of entries with the key of the vault or another key, of entries
\* as stored or with an altered stored text
NextUpdate ==
    \/ DoCreate
    \/ DoAddEntry
    \/ DoUpdateEntry
    \/ DoTakeKey
    \/ DoAlterText

SpecUpdate == Init /\ [][NextUpdate]_vars

\* the operations of the vault, the edit action of the window and the
\* listing of the entries it shows
NextGui ==
    \/ Next
    \/ DoEditEntry
    \/ DoList

SpecGui == Init /\ [][NextGui]_vars

\* ------------------------------------------------------- the clipboard
\* The calls of walk.Clipboard() succeed; the errors they return are
\* discarded by the code.  The 20 seconds of time.Sleep are the distance
\* between a copy and the step TimerCheck of its goroutine.

\* the most copy actions of one run
MaxCopies == 3

\* the texts of the detail fields the copy buttons pass
CopyTexts == {"", "alice", "pw-1"}

\* the values of dlg.generatedPassword
GeneratedPasswords == {"", "Gen#1"}

\* secureClipboardCopy(text), the whole handler up to the go statement
DoSecureClipboardCopy ==
    /\ gui.copies < MaxCopies
    /\ \E text \in CopyTexts :
         gui' = IF text = ""
                THEN [gui EXCEPT !.copies = @ + 1]
                ELSE [gui EXCEPT !.copies = @ + 1,
                                 !.clipboard = text,
                                 !.timers = Append(@, [text |-> text,
                                                       pc |-> "sleeping"])]
    /\ UNCHANGED <<vault, key, disk, ret, clock, steps, drawn, hist>>

\* the Copy button of the password generator dialog
DoGeneratorCopy ==
    /\ gui.copies < MaxCopies
    /\ \E generatedPassword \in GeneratedPasswords :
         gui' = IF generatedPassword # ""
                THEN [gui EXCEPT !.copies = @ + 1,
                                 !.clipboard = generatedPassword]
                ELSE [gui EXCEPT !.copies = @ + 1]
    /\ UNCHANGED <<vault, key, disk, ret, clock, steps, drawn, hist>>

\* goroutine i after its sleep: it reads the clipboard and, when the
\* clipboard holds its text, hands the clear to the window's thread
TimerCheck(i) ==
    /\ i \in DOMAIN gui.timers
    /\ gui.timers[i].pc = "sleeping"
    /\ gui' = [gui EXCEPT !.timers[i].pc =
                   IF gui.clipboard = gui.timers[i].text
                   THEN "queued" ELSE "done"]
    /\ UNCHANGED <<vault, key, disk, ret, clock, steps, drawn, hist>>

\* the window's thread runs the function goroutine i handed to Synchronize
TimerClear(i) ==
    /\ i \in DOMAIN gui.timers
    /\ gui.timers[i].pc = "queued"
    /\ gui' = [gui EXCEPT !.timers[i].pc = "done",
                          !.clipboard = "",
                          !.erased = <<[by |-> gui.timers[i].text,
                                        was |-> gui.clipboard]>>]
    /\ UNCHANGED <<vault, key, disk, ret, clock, steps, drawn, hist>>

DoTimerCheck == \E i \in 1..MaxCopies : TimerCheck(i)

DoTimerClear == \E i \in 1..MaxCopies : TimerClear(i)

NextClipboard ==
    \/ DoSecureClipboardCopy
    \/ DoGeneratorCopy
    \/ DoTimerCheck
    \/ DoTimerClear

SpecClipboard == Init /\ [][NextClipboard]_vars

\* A goroutine that finished its sleep is scheduled, and the message loop
\* of the window runs every function handed to Synchronize; the user is
\* under no obligation to press a button.
FairClipboard ==
    /\ SpecClipboard
    /\ \A i \in 1..MaxCopies : WF_vars(TimerCheck(i)) /\ WF_vars(TimerClear(i))

\* ------------------------------------------------- the password generator
\* The values rand.Int returns are the inputs of GeneratePassword: call k
\* reads place k of a tape of MaxTape values below MaxDraw, again from its
\* start when the tape ends, and returns that value modulo max.
MaxTape == 5
MaxDraw == 2

upperChars == UpperCase
lowerChars == LowerCase
numberChars == <<"0", "1", "2", "3", "4", "5", "6", "7", "8", "9">>
symbolChars == <<"!", "@", "#", "$", "%", "^", "&", "*", "_", "+", "-", "=">>
similarChars == <<"i", "l", "1", "L", "o", "0", "O">>
\* ("backquote" stands for the grave accent, which a string here cannot hold)
ambigChars == <<"{", "}", "[", "]", "(", ")", "/", "'", "\"", "backquote", ",", ";",
                ":", ".", "<", ">", "\\">>

\* the characters of a string
Elems(str) == {str[i] : i \in DOMAIN str}

\* strings.ReplaceAll(charSet, c, "") for each c of excluded
RemoveAll(charSet, excluded) == SelectSeq(charSet, LAMBDA c : c \notin Elems(excluded))

\* the PasswordOptions given and the tapes of rand.Int
PasswordOptions ==
    [Length : {3, 4}, IncludeUpper : BOOLEAN, IncludeLower : BOOLEAN,
     IncludeNumbers : BOOLEAN, IncludeSymbols : BOOLEAN,
     ExcludeSimilar : BOOLEAN, ExcludeAmbiguous : BOOLEAN]
Tapes == [1..MaxTape -> 0..(MaxDraw - 1)]

\* rand.Int(rand.Reader, max), call k
RandInt(tape, k, max) == tape[((k - 1) % Len(tape)) + 1] % max

\* getRandomChar(chars), with call k of rand.Int
getRandomChar(chars, tape, k) ==
    IF Len(chars) = 0 THEN "NUL" ELSE chars[RandInt(tape, k, Len(chars)) + 1]

\* the shuffle loop of GeneratePassword from index i down to 1
RECURSIVE Shuffle(_, _, _, _)
Shuffle(password, i, tape, k) ==
    IF i <= 0 THEN password
    ELSE LET j == RandInt(tape, k, i + 1)
         IN  Shuffle([password EXCEPT ![i + 1] = password[j + 1],
                                      ![j + 1] = password[i + 1]],
                     i - 1, tape, k + 1)

\* GeneratePassword: the password as the sequence of its characters
GeneratePassword(opts, tape) ==
    LET chars == (IF opts.IncludeUpper THEN upperChars ELSE <<>>)
                 \o (IF opts.IncludeLower THEN lowerChars ELSE <<>>)
                 \o (IF opts.IncludeNumbers THEN numberChars ELSE <<>>)
                 \o (IF opts.IncludeSymbols THEN symbolChars ELSE <<>>)
        noSimilar == IF opts.ExcludeSimilar THEN RemoveAll(chars, similarChars) ELSE chars
        charSet == IF opts.ExcludeAmbiguous THEN RemoveAll(noSimilar, ambigChars)
                   ELSE noSimilar
        length == IF opts.Length < 4 THEN 12 ELSE opts.Length
        u == IF opts.IncludeUpper THEN <<getRandomChar(upperChars, tape, 1)>> ELSE <<>>
        l == u \o (IF opts.IncludeLower
                   THEN <<getRandomChar(lowerChars, tape, Len(u) + 1)>> ELSE <<>>)
        n == l \o (IF opts.IncludeNumbers
                   THEN <<getRandomChar(numberChars, tape, Len(l) + 1)>> ELSE <<>>)
        y == n \o (IF opts.IncludeSymbols
                   THEN <<getRandomChar(symbolChars, tape, Len(n) + 1)>> ELSE <<>>)
        result == y \o [i \in 1..(length - Len(y)) |->
                           getRandomChar(charSet, tape, Len(y) + i)]
    IN  IF charSet = <<>> THEN <<>>
        ELSE Shuffle(result, Len(result) - 1, tape, Len(result) + 1)

\* the options and the tape of one call
InitGenerate ==
    /\ vault = NoVault
    /\ key = NoBytes
    /\ disk = NoFile
    /\ clock = 1
    /\ steps = 0
    /\ drawn = [salt |-> 0, nonce |-> 0, id |-> 0, mk |-> 0]
    /\ hist = [mem |-> NoHist, disk |-> NoHist, seals |-> {}, nseals |-> 0]
    /\ gui = NoGui
    /\ \E opts \in PasswordOptions, tape \in Tapes :
         ret = [op |-> "none", opts |-> opts, tape |-> tape, password |-> <<>>]

\* password, err := pwmanager.GeneratePassword(opts)
DoGeneratePassword ==
    /\ ret.op = "none"
    /\ ret' = [ret EXCEPT !.op = "GeneratePassword",
                          !.password = GeneratePassword(ret.opts, ret.tape)]
    /\ UNCHANGED <<vault, key, disk, clock, steps, drawn, hist>>
    /\ UNCHANGED gui

NextGenerate == DoGeneratePassword

SpecGenerate == InitGenerate /\ [][NextGenerate]_vars

\* --------------------------------------------------- password strength
\* the most characters that follow the first characters of a password
MaxPad == 21

\* characters of each kind that unicode tells apart, one that is none of
\* them, and a lower case letter of two bytes ("U+00E9")
SampleChars == <<"A", "a", "1", "!", " ", "U+00E9">>

\* the bytes of a character in UTF-8
Utf8Len(c) == IF c = "U+00E9" THEN 2 ELSE 1

\* len(password)
RECURSIVE ByteLen(_)
ByteLen(password) ==
    IF password = <<>> THEN 0 ELSE Utf8Len(Head(password)) + ByteLen(Tail(password))

IsUpper(c) == c \in Elems(upperChars)
IsLower(c) == c \in Elems(lowerChars) \cup {"U+00E9"}
IsNumber(c) == c \in Elems(numberChars)
IsPunctOrSymbol(c) == c \in Elems(symbolChars) \cup Elems(ambigChars)

\* the passwords analysed: some of the sample characters, then one of them
\* up to MaxPad times
StrengthPasswords ==
    {SelectSeq(SampleChars, LAMBDA c : c \in S) \o [i \in 1..n |-> pad] :
        S \in SUBSET Elems(SampleChars), pad \in Elems(SampleChars), n \in 0..MaxPad}

\* AnalyzePasswordStrength that counts the characters of the password
AnalyzePasswordStrengthRunes(password) ==
    IF Len(password) = 0 THEN [score |-> 0, feedback |-> <<"Password is empty">>]
    ELSE
    LET hasUpper == \E i \in DOMAIN password : IsUpper(password[i])
        hasLower == \E i \in DOMAIN password : ~IsUpper(password[i]) /\ IsLower(password[i])
        hasNumber == \E i \in DOMAIN password :
                        /\ ~IsUpper(password[i]) /\ ~IsLower(password[i])
                        /\ IsNumber(password[i])
        hasSymbol == \E i \in DOMAIN password :
                        /\ ~IsUpper(password[i]) /\ ~IsLower(password[i])
                        /\ ~IsNumber(password[i]) /\ IsPunctOrSymbol(password[i])
        categories == (IF hasUpper THEN 1 ELSE 0) + (IF hasLower THEN 1 ELSE 0)
                      + (IF hasNumber THEN 1 ELSE 0) + (IF hasSymbol THEN 1 ELSE 0)
        lengthScore == IF Len(password) * 2 > 40 THEN 40 ELSE Len(password) * 2
        bonus == IF Len(password) >= 12 /\ categories = 4 THEN 20
                 ELSE IF Len(password) >= 10 /\ categories >= 3 THEN 10 ELSE 0
        sum == lengthScore + categories * 10 + bonus
        score == IF sum > 100 THEN 100 ELSE sum
    IN  [score |-> score,
         feedback |-> (IF Len(password) < 8 THEN <<"Password is too short">> ELSE <<>>)
                      \o (IF ~hasUpper \/ ~hasLower
                          THEN <<"Mix upper and lowercase letters">> ELSE <<>>)
                      \o (IF ~hasNumber THEN <<"Add numbers">> ELSE <<>>)
                      \o (IF ~hasSymbol THEN <<"Add symbols">> ELSE <<>>)
                      \o <<CASE score >= 80 -> "Strong password!"
                             [] score >= 60 -> "Good password, but could be stronger"
                             [] score >= 40 -> "Moderate password - consider strengthening"
                             [] OTHER -> "Weak password - needs improvement">>]

\* AnalyzePasswordStrength: [score, feedback]
AnalyzePasswordStrength(password) ==
    IF ByteLen(password) = 0 THEN [score |-> 0, feedback |-> <<"Password is empty">>]
    ELSE
    LET hasUpper == \E i \in DOMAIN password : IsUpper(password[i])
        hasLower == \E i \in DOMAIN password : ~IsUpper(password[i]) /\ IsLower(password[i])
        hasNumber == \E i \in DOMAIN password :
                        /\ ~IsUpper(password[i]) /\ ~IsLower(password[i])
                        /\ IsNumber(password[i])
        hasSymbol == \E i \in DOMAIN password :
                        /\ ~IsUpper(password[i]) /\ ~IsLower(password[i])
                        /\ ~IsNumber(password[i]) /\ IsPunctOrSymbol(password[i])
        categories == (IF hasUpper THEN 1 ELSE 0) + (IF hasLower THEN 1 ELSE 0)
                      + (IF hasNumber THEN 1 ELSE 0) + (IF hasSymbol THEN 1 ELSE 0)
        lengthScore == IF ByteLen(password) * 2 > 40 THEN 40 ELSE ByteLen(password) * 2
        bonus == IF ByteLen(password) >= 12 /\ categories = 4 THEN 20
                 ELSE IF ByteLen(password) >= 10 /\ categories >= 3 THEN 10 ELSE 0
        sum == lengthScore + categories * 10 + bonus
        score == IF sum > 100 THEN 100 ELSE sum
    IN  [score |-> score,
         feedback |-> (IF ByteLen(password) < 8 THEN <<"Password is too short">> ELSE <<>>)
                      \o (IF ~hasUpper \/ ~hasLower
                          THEN <<"Mix upper and lowercase letters">> ELSE <<>>)
                      \o (IF ~hasNumber THEN <<"Add numbers">> ELSE <<>>)
                      \o (IF ~hasSymbol THEN <<"Add symbols">> ELSE <<>>)
                      \o <<CASE score >= 80 -> "Strong password!"
                             [] score >= 60 -> "Good password, but could be stronger"
                             [] score >= 40 -> "Moderate password - consider strengthening"
                             [] OTHER -> "Weak password - needs improvement">>]

\* the password of one call
InitStrength ==
    /\ vault = NoVault
    /\ key = NoBytes
    /\ disk = NoFile
    /\ clock = 1
    /\ steps = 0
    /\ drawn = [salt |-> 0, nonce |-> 0, id |-> 0, mk |-> 0]
    /\ hist = [mem |-> NoHist, disk |-> NoHist, seals |-> {}, nseals |-> 0]
    /\ gui = NoGui
    /\ \E password \in StrengthPasswords :
         ret = [op |-> "none", password |-> password, score |-> 0, feedback |-> <<>>]

\* score, feedback := pwmanager.AnalyzePasswordStrength(password)
DoAnalyzePasswordStrength ==
    /\ ret.op = "none"
    /\ LET r == AnalyzePasswordStrength(ret.password)
       IN  ret' = [ret EXCEPT !.op = "AnalyzePasswordStrength",
                              !.score = r.score, !.feedback = r.feedback]
    /\ UNCHANGED <<vault, key, disk, clock, steps, drawn, hist>>
    /\ UNCHANGED gui

NextStrength == DoAnalyzePasswordStrength

SpecStrength == InitStrength /\ [][NextStrength]_vars

\* ------------------------------------------------------------------ claims
\* the vault in memory is the one Load read from the file
Loaded == vault # NoVault /\ disk # NoFile /\ Load(disk).err = NoErr /\ Load(disk).val = vault

\* the entry id of vault v decrypts under key k to the fields supplied for it
DecryptsToSupplied(v, k, id) ==
    LET r == GetDecrypted(v, k, id)
    IN  /\ r.err = NoErr
        /\ Supplied(r.meta.Title, r.plain) = hist.mem.sup[id]

\* C1: a vault made by Create and given entries by AddEntry, written by Save
\* and read back by Load, is unlocked by Unlock with its password, and
\* GetDecrypted with the returned key yields the supplied fields of each entry.
C1_RoundTrip ==
    (ret.op = "Load" /\ ret.ok /\ DOMAIN hist.mem.sup # {}) =>
        LET u == Unlock(vault, hist.mem.pw)
        IN  /\ u.err = NoErr
            /\ \A id \in DOMAIN hist.mem.sup : DecryptsToSupplied(vault, u.val, id)

\* C1, the run of the code: after Create("hunter2"), AddEntry, Save and Load,
\* Unlock("hunter2") passes the verification block and fails in unwrapMasterKey
C1_UnlockAfterLoadFails ==
    /\ Loaded
    /\ DOMAIN vault.Entries # {}
    /\ ret.op = "Unlock"
    /\ ret.pw = hist.mem.pw
    /\ ret.pw = "hunter2"
    /\ ret.err = <<"failed to unwrap master key", "failed to decrypt master key",
                   "nonce must be 12 bytes for GCM">>

\* C2: Unlock with a password other than the one the vault was created or
\* last re-keyed with returns an error and no key, in every reachable state
\* (fresh, re-keyed, saved and loaded), the empty password included.
C2_WrongPasswordFails ==
    vault # NoVault =>
        \A pw \in Passwords \ {hist.mem.pw} :
            LET u == Unlock(vault, pw)
            IN  u.err # NoErr /\ u.val = NoBytes

\* C2 happens: Unlock was called with a wrong password on a vault that holds
\* its wrapped key, and returned the error and no key
C2_WrongPasswordTried ==
    /\ vault # NoVault
    /\ vault.KeyMgr # ZeroKeyManager
    /\ hist.mem.pw = "hunter2"
    /\ ret.op = "Unlock"
    /\ ret.pw = "hunter3"
    /\ ret.err = <<"wrong master password">>
    /\ ret.key = NoBytes

\* C3: every Unlock that fails in a cryptographic check (the salt, nonce and
\* verification ciphertext decode) returns the one error "wrong master password".
C3_SingleGenericError ==
    (ret.op = "Unlock" /\ ~ret.ok /\ vault # NoVault) =>
        ret.err = <<"wrong master password">>

\* C3, the run of the code: a failing verification block and a failing unwrap
\* return two different errors
C3_UnwrapErrorDiffers ==
    /\ ret.op = "Unlock"
    /\ ~ret.ok
    /\ vault # NoVault
    /\ ret.err[1] = "failed to unwrap master key"
    /\ \E pw \in Passwords : Unlock(vault, pw).err = <<"wrong master password">>

Decoded(w) == [nonce |-> B64Decode(w.NonceB64), ct |-> B64Decode(w.CipherB64)]

\* GetDecrypted fails on the entry and returns no plaintext
Refused(id) ==
    LET r == GetDecrypted(vault, key, id)
    IN  r.err # NoErr /\ r.plain = NoPlain

\* C5, as the claim states it: GetDecrypted with the master key fails on every
\* stored entry whose stored ciphertext, stored nonce or id differs from what
\* AddEntry/UpdateEntry wrote.
C5_AnyStoredChangeDetected ==
    (vault # NoVault /\ key = hist.mem.mk) =>
        \A id \in DOMAIN vault.Entries :
            (\/ id \notin DOMAIN hist.mem.wr
             \/ vault.Entries[id].ID # id
             \/ Written(vault.Entries[id]) # hist.mem.wr[id])
            => Refused(id)

\* C5, amended: GetDecrypted with the master key fails on every stored entry
\* whose slot id is not the id it was written under, or whose stored nonce or
\* ciphertext does not decode, or decodes to other bytes than were written
\* (one bit flipped, one byte appended or cut off).
C5_ChangedBytesDetected ==
    (vault # NoVault /\ key = hist.mem.mk) =>
        \A id \in DOMAIN vault.Entries :
            (\/ id \notin DOMAIN hist.mem.wr
             \/ Decoded(vault.Entries[id]) # Decoded(hist.mem.wr[id]))
            => Refused(id)

\* C5 happens: GetDecrypted was called with the master key on an entry whose
\* ciphertext is one byte longer than written, and failed
C5_AlteredEntryRead ==
    /\ vault # NoVault
    /\ key = hist.mem.mk
    /\ ret.op = "GetDecrypted"
    /\ ~ret.ok
    /\ ret.plain = NoPlain
    /\ ret.id \in DOMAIN vault.Entries
    /\ ret.id \in DOMAIN hist.mem.wr
    /\ Decoded(vault.Entries[ret.id]).nonce = Decoded(hist.mem.wr[ret.id]).nonce
    /\ Decoded(vault.Entries[ret.id]).ct.val.t = "mod"
    /\ Decoded(vault.Entries[ret.id]).ct.val.how = "extend"

\* the slot of id2 holds the nonce and ciphertext written for another entry
Transplanted(id2) ==
    /\ id2 \in DOMAIN vault.Entries
    /\ \E id1 \in DOMAIN hist.mem.wr :
         id1 # id2 /\ Written(vault.Entries[id2]) = hist.mem.wr[id1]

\* C6: two different ids have different entry keys under the master key, and
\* a nonce and ciphertext written for id1 and placed in the slot of id2 fail
\* GetDecrypted(masterKey, id2).
C6_EntriesIsolated ==
    (vault # NoVault /\ key = hist.mem.mk) =>
        /\ \A id1 \in KnownIds, id2 \in KnownIds :
             id1 # id2 => deriveEntryKey(key, id1).val # deriveEntryKey(key, id2).val
        /\ \A id2 \in DOMAIN vault.Entries : Transplanted(id2) => Refused(id2)

\* C6 happens: GetDecrypted was called with the master key on a slot that
\* holds the pair of another entry, and failed
C6_TransplantRead ==
    /\ vault # NoVault
    /\ key = hist.mem.mk
    /\ ret.op = "GetDecrypted"
    /\ Transplanted(ret.id)
    /\ ret.err = <<"decryption failed (authentication tag verification failed)">>

\* C7: the vault Load reads from the file Save wrote equals the saved vault
\* in KDF parameters, salt, wrapped master key and wrap nonce, verification
\* nonce and ciphertext, and entries.
C7_SaveLoadIdentity ==
    (ret.op = "Save" /\ ret.ok) =>
        LET l == Load(disk)
        IN  /\ l.err = NoErr
            /\ l.val.KDF = vault.KDF
            /\ l.val.SaltB64 = vault.SaltB64
            /\ l.val.KeyMgr = vault.KeyMgr
            /\ l.val.VerifyNnc = vault.VerifyNnc
            /\ l.val.VerifyCt = vault.VerifyCt
            /\ l.val.Entries = vault.Entries

\* C7, the run of the code: the loaded vault has every field of the saved
\* one but the wrapped master key and its nonce, which are empty
C7_WrappedKeyLost ==
    /\ ret.op = "Load"
    /\ ret.ok
    /\ vault = Load(disk).val
    /\ vault.KeyMgr = ZeroKeyManager
    /\ vault.SaltB64 # EmptyString
    /\ vault.VerifyCt # EmptyString
    /\ DOMAIN vault.Entries # {}

\* the versions a load accepts
SupportedVersions == {<<2>>}

\* C8: Load and LoadV2 return an error and no vault for a file that states
\* no version or a version that is not supported.
C8_VersionChecked ==
    (ret.op \in {"Load", "LoadV2"} /\ disk # NoFile /\ FileVersion(disk) \notin SupportedVersions)
        => ~ret.ok

\* C8, the run of the code: Load accepted a file that states version 3
C8_LoadAcceptsVersion3 ==
    /\ ret.op = "Load"
    /\ ret.ok
    /\ FileVersion(disk) = <<3>>
    /\ vault = Load(disk).val

\* the base64 texts a vault object holds, and those of a vault file
VaultTexts(v) ==
    {v.SaltB64, v.KeyMgr.encryptedMKB64, v.KeyMgr.encryptedMKNonce, v.VerifyNnc, v.VerifyCt}
        \cup {v.Entries[id].NonceB64 : id \in DOMAIN v.Entries}
        \cup {v.Entries[id].CipherB64 : id \in DOMAIN v.Entries}
FileTexts(file) ==
    {file.obj.salt, file.obj.verify_nonce, file.obj.verify_ct}
        \cup {file.obj.keyManager[f] : f \in DOMAIN file.obj.keyManager}
        \cup {file.obj.entries[id].nonce : id \in DOMAIN file.obj.entries}
        \cup {file.obj.entries[id].ciphertext : id \in DOMAIN file.obj.entries}
\* the strings they hold as they are
VaultStrings(v) == {v.Entries[id].Title : id \in DOMAIN v.Entries}
FileStrings(file) == {file.obj.entries[id].title : id \in DOMAIN file.obj.entries}

\* the usernames, passwords, urls and notes given to the vault so far
SuppliedOf(h) ==
    UNION {{h.sup[id].Username, h.sup[id].Password, h.sup[id].URL, h.sup[id].Notes} :
           id \in DOMAIN h.sup} \ {""}
SecretFields == SuppliedOf(hist.mem) \cup SuppliedOf(hist.disk)

\* bytes that are a master key, a password-derived key, an entry key, or the
\* plaintext of an entry
Secret(b) ==
    \/ b.t = "rand" /\ b.kind = "mk"
    \/ b.t \in {"scrypt", "hkdf", "json"}
    \/ b.t = "str" /\ b.s \in SecretFields

\* no text of the set decodes to secret bytes
NoneSecret(texts) == \A s \in texts : B64Decode(s).err = NoErr => ~Secret(B64Decode(s).val)

\* C9: in every reachable state the vault object and the saved file hold no
\* master key, password-derived key or entry key in the clear, and no
\* plaintext username, password, url or notes.
C9_NoPlaintextStored ==
    /\ vault # NoVault =>
         NoneSecret(VaultTexts(vault)) /\ VaultStrings(vault) \cap SecretFields = {}
    /\ disk # NoFile =>
         NoneSecret(FileTexts(disk)) /\ FileStrings(disk) \cap SecretFields = {}

\* C9 happens: a vault that holds its wrapped key and an entry was saved
C9_SavedWithEntry ==
    /\ ret.op = "Save"
    /\ vault # NoVault
    /\ DOMAIN vault.Entries # {}
    /\ B64Decode(vault.KeyMgr.encryptedMKB64).val.t = "gcm"
    /\ B64Decode(vault.KeyMgr.encryptedMKB64).val.pt = hist.mem.mk
    /\ disk = MarshalVault(vault)

\* C10: the key Unlock derives from a password is scrypt of the password and
\* the stored salt under the KDF parameters stored in the vault.
C10_StoredKdfUsed ==
    vault # NoVault =>
        \A pw \in Passwords :
            UnlockDerivedKey(vault, pw) =
                Scrypt(Bytes(pw), B64Decode(vault.SaltB64).val,
                       vault.KDF.N, vault.KDF.R, vault.KDF.P, vault.KDF.L)

\* C10, the run of the code: a vault whose stored scrypt cost is 16384 was
\* loaded, and Unlock with its password failed at the verification block
C10_OtherCostLocked ==
    /\ vault # NoVault
    /\ vault.KDF = OtherKDF
    /\ vault.KDF # DefaultKDF
    /\ hist.mem.pw = "hunter2"
    /\ ret.op = "Unlock"
    /\ ret.pw = "hunter2"
    /\ ret.err = <<"wrong master password">>

\* the step is a call of op that counts as an operation on the vault
Called(op) == steps' = steps + 1 /\ ret'.op = op

\* C11: a password change (the GUI handler and ChangePasswordV2) succeeds only
\* if Unlock with the old password succeeds on the vault as it is; when that
\* Unlock fails the change returns an error and the vault stays as it was.
C11_ChangeNeedsOldPassword ==
    [][/\ Called("ChangePassword") =>
            LET u == Unlock(vault, ret'.old)
            IN  /\ ret'.ok => u.err = NoErr
                /\ u.err # NoErr => (~ret'.ok /\ vault' = vault /\ disk' = disk)
       /\ Called("ChangePasswordV2") =>
            LET u == UnlockV2(vault, ret'.old)
            IN  /\ ret'.ok => u.err = NoErr
                /\ u.err # NoErr => (~ret'.ok /\ vault' = vault)]_vars

\* C11 happens: a password change with a wrong old password was refused on a
\* vault that holds an entry
C11_ChangeRefused ==
    /\ ret.op = "ChangePassword"
    /\ ret.err = <<"Current password is incorrect">>
    /\ ret.old # hist.mem.pw
    /\ ret.pw # ""
    /\ DOMAIN vault.Entries # {}

\* C12: a successful password change stores a new salt, wraps the master key
\* that Unlock returned before the change (Unlock with the new password
\* returns that key), seals the verification block under the new password,
\* and leaves the entry map as it was.
C12_ChangeRewrapsSameKey ==
    [][/\ (Called("ChangePassword") /\ ret'.ok) =>
            LET before == Unlock(vault, ret'.old)
                after == Unlock(vault', ret'.pw)
                k == deriveKey(ret'.pw, B64Decode(vault'.SaltB64).val)
            IN  /\ vault'.SaltB64 # vault.SaltB64
                /\ after.err = NoErr
                /\ after.val = before.val
                /\ DecryptAESGCM(k.val, B64Decode(vault'.VerifyNnc).val,
                                 B64Decode(vault'.VerifyCt).val, NoBytes) = Ok(Bytes(verifyMsg))
                /\ vault'.Entries = vault.Entries
       /\ (Called("ChangePasswordV2") /\ ret'.ok) =>
            LET before == UnlockV2(vault, ret'.old)
                after == UnlockV2(vault', ret'.pw)
            IN  /\ vault'.SaltB64 # vault.SaltB64
                /\ after.err = NoErr
                /\ after.val = before.val
                /\ vault'.Entries = vault.Entries]_vars

\* C12 happens: the password of a VaultV2 that holds an entry was changed
C12_ChangedV2 ==
    /\ ret.op = "ChangePasswordV2"
    /\ ret.ok
    /\ ret.old # ret.pw
    /\ DOMAIN vault.Entries # {}
    /\ UnlockV2(vault, ret.pw).val = hist.mem.mk

\* C13: after N successful AddEntry calls and M successful Delete calls,
\* every slice List can return holds N - M entries, each with the title
\* stored for its id.
C13_ListCountsEntries ==
    vault # NoVault =>
        \A l \in List(vault) :
            /\ Len(l) = hist.mem.added - hist.mem.deleted
            /\ \A i \in 1..Len(l) :
                 /\ l[i].ID \in DOMAIN hist.mem.sup
                 /\ l[i].Title = hist.mem.sup[l[i].ID].Title

\* C13 happens: List returned one entry after two additions and one removal
C13_ListedAfterDelete ==
    /\ ret.op = "List"
    /\ Len(ret.out) = 1
    /\ hist.mem.added = 2
    /\ hist.mem.deleted = 1
    /\ ret.out \in List(vault)

\* the two maps hold the same entries outside of id
SameElsewhere(m1, m2, id) ==
    /\ (DOMAIN m1) \ {id} = (DOMAIN m2) \ {id}
    /\ \A x \in (DOMAIN m1) \ {id} : m1[x] = m2[x]

\* C14: Delete(id) returns true exactly when id is in the vault; then the
\* entry of id and no other is removed; when it returns false the vault is
\* as before.
C14_DeleteRemovesOne ==
    [][Called("Delete") =>
         /\ ret'.ok <=> ret'.id \in DOMAIN vault.Entries
         /\ ret'.ok => /\ ret'.id \notin DOMAIN vault'.Entries
                       /\ SameElsewhere(vault.Entries, vault'.Entries, ret'.id)
                       /\ [vault' EXCEPT !.Entries = EmptyMap] = [vault EXCEPT !.Entries = EmptyMap]
         /\ ~ret'.ok => vault' = vault]_vars

\* C14 happens: Delete removed one of two entries
C14_DeletedOneOfTwo ==
    /\ ret.op = "Delete"
    /\ ret.ok
    /\ ret.id \notin DOMAIN vault.Entries
    /\ Cardinality(DOMAIN vault.Entries) = 1

\* the value after an update that was given ptr: the old value for a nil
\* pointer, else the value pointed to
Kept(old, new, ptr) == (ptr = <<>> /\ new = old) \/ (ptr # <<>> /\ new = ptr[1])

\* C15: a successful UpdateEntry changes the supplied fields and keeps the
\* others, keeps createdAt, sets modifiedAt of the plaintext record and of the
\* stored entry to the time of the call, and changes no other entry.
C15_UpdateChangesSupplied ==
    [][(Called("UpdateEntry") /\ ret'.ok) =>
         LET id == ret'.id
             u == ret'.upd
             b == GetDecrypted(vault, key, id)
             a == GetDecrypted(vault', key, id)
         IN  /\ b.err = NoErr
             /\ a.err = NoErr
             /\ Kept(b.meta.Title, a.meta.Title, u.title)
             /\ Kept(b.plain.Username, a.plain.Username, u.username)
             /\ Kept(b.plain.Password, a.plain.Password, u.password)
             /\ Kept(b.plain.URL, a.plain.URL, u.url)
             /\ Kept(b.plain.Notes, a.plain.Notes, u.notes)
             /\ a.plain.CreatedAt = b.plain.CreatedAt
             /\ a.meta.CreatedAt = b.meta.CreatedAt
             /\ a.meta.ID = b.meta.ID
             /\ a.plain.ModifiedAt = clock'
             /\ a.meta.ModifiedAt = clock'
             /\ clock' >= clock
             /\ SameElsewhere(vault.Entries, vault'.Entries, id)
             /\ DOMAIN vault'.Entries = DOMAIN vault.Entries
             /\ [vault' EXCEPT !.Entries = EmptyMap] = [vault EXCEPT !.Entries = EmptyMap]]_vars

\* C15 happens: one of two entries was updated with a new password only, at
\* a later time than it was created
C15_UpdatedOneOfTwo ==
    /\ ret.op = "UpdateEntry"
    /\ ret.ok
    /\ ret.upd.password # <<>>
    /\ ret.upd.title = <<>>
    /\ Cardinality(DOMAIN vault.Entries) = 2
    /\ vault.Entries[ret.id].ModifiedAt > vault.Entries[ret.id].CreatedAt

\* every entry is stored under the key that is its ID field
KeyedById(v) == \A id \in DOMAIN v.Entries : v.Entries[id].ID = id

\* C16: every CipherEntry is stored under a map key equal to its ID field,
\* and UpdateEntry, the edit action of the window and a password change keep
\* every entry under the id it had.
C16_IdImmutable ==
    [][/\ vault' # NoVault => KeyedById(vault')
       /\ (/\ Called("UpdateEntry") \/ Called("EditEntry") \/ Called("ChangePassword")
           /\ ret'.ok)
          => DOMAIN vault'.Entries = DOMAIN vault.Entries]_vars

\* C16 happens: the entry edited in the window is no longer under its id, and
\* the vault with the entry under another id was saved
C16_EditGaveNewId ==
    /\ ret.op = "EditEntry"
    /\ ret.ok
    /\ ret.id \notin DOMAIN vault.Entries
    /\ ret.key \in DOMAIN vault.Entries
    /\ ret.key # ret.id
    /\ disk = MarshalVault(vault)

\* a and b are equal up to the case of their letters
FoldEq(a, b) ==
    /\ Len(a) = Len(b)
    /\ \A i \in 1..Len(a) :
         (IF a[i] \in DOMAIN LowerOf THEN LowerOf[a[i]] ELSE a[i])
            = (IF b[i] \in DOMAIN LowerOf THEN LowerOf[b[i]] ELSE b[i])

\* some substring of cs is equal to sub up to case
ContainsFold(cs, sub) ==
    \E i \in 1..(Len(cs) - Len(sub) + 1) : FoldEq(SubSeq(cs, i, i + Len(sub) - 1), sub)

\* q without the white space around it
Core(q) ==
    LET inner == {n \in 1..Len(q) : q[n] \notin WhiteSpace}
    IN  IF inner = {} THEN <<>>
        ELSE SubSeq(q, CHOOSE n \in inner : \A m \in inner : n <= m,
                       CHOOSE n \in inner : \A m \in inner : n >= m)

\* the slice l holds the entries ids of the vault v as they are stored, each once
Returns(v, l, ids) ==
    /\ {l[i].ID : i \in 1..Len(l)} = ids
    /\ Len(l) = Cardinality(ids)
    /\ \A i \in 1..Len(l) : l[i] = v.Entries[l[i].ID]

TitleOf(v, id) == Chars(v.Entries[id].Title)

\* a step of the call op, which reads the vault and changes nothing
Answered(op) == ret'.op = op /\ ret' # ret

SortedByModifiedAtDesc(l) ==
    \A i, j \in 1..Len(l) : i < j => l[i].ModifiedAt >= l[j].ModifiedAt

\* C18: the slice SearchTitles and FindByExactTitle return is sorted by
\* ModifiedAt descending, and every call with the same query on the same
\* vault returns the same slice, also when matches share a ModifiedAt.
C18_SearchOrderDeterministic ==
    [][/\ Answered("SearchTitles") =>
            /\ SortedByModifiedAtDesc(ret'.out)
            /\ \A l \in SearchTitles(vault, ret'.query) : l = ret'.out
       /\ Answered("FindByExactTitle") =>
            /\ SortedByModifiedAtDesc(ret'.out)
            /\ \A l \in FindByExactTitle(vault, ret'.query) : l = ret'.out]_vars

\* C18 happens: FindByExactTitle returned two entries with the same title
\* that were added within one running tick of the clock, and another call can
\* return them the other way round
C18_TieReturnedEitherWay ==
    /\ ret.op = "FindByExactTitle"
    /\ Len(ret.out) = 2
    /\ ret.out[1].ModifiedAt = ret.out[2].ModifiedAt
    /\ ret.out[1].ModifiedAt < MaxClock
    /\ ret.out[1].ID # ret.out[2].ID
    /\ SortedByModifiedAtDesc(ret.out)
    /\ <<ret.out[2], ret.out[1]>> \in FindByExactTitle(vault, ret.query)

\* C19: GetDecrypted returns the error "no such id" for an id that is not in
\* the vault and an authentication failure when the key is not the master
\* key of the vault; in both cases it returns no plaintext record and the
\* vault is as before.
C19_GetDecryptedRefuses ==
    [][Answered("GetDecrypted") =>
         /\ ret'.id \notin DOMAIN vault.Entries =>
              /\ ret'.err = <<"no such id">>
              /\ ret'.plain = NoPlain
         /\ (ret'.id \in DOMAIN vault.Entries /\ key # hist.mem.mk) =>
              /\ ret'.err = <<"decryption failed (authentication tag verification failed)">>
              /\ ret'.plain = NoPlain
         /\ UNCHANGED <<vault, key, disk>>]_vars

\* C19 happens: GetDecrypted returned the plaintext record of an entry to a
\* caller whose key is not the master key of the vault
C19_ReadWithOtherKey ==
    /\ ret.op = "GetDecrypted"
    /\ ret.ok
    /\ ret.plain # NoPlain
    /\ ret.id \in DOMAIN vault.Entries
    /\ key # hist.mem.mk
    /\ hist.mem.mk # NoBytes
    /\ Unlock(vault, hist.mem.pw).val = hist.mem.mk

\* C20: Load returns an error and no vault, or a vault with all fields of
\* the file and a map of entries (empty when the file has none); a file with
\* a binary field that is not valid base64 makes Load fail.
C20_LoadAllOrNothing ==
    [][Called("Load") =>
         LET r == Load(disk)
         IN  /\ ret'.err = r.err
             /\ ~ret'.ok => (r.val = NoVault /\ vault' = vault)
             /\ ret'.ok =>
                  /\ vault' = r.val
                  /\ DOMAIN vault'.Entries = IF Has(disk.obj, "entries")
                                             THEN DOMAIN disk.obj.entries ELSE {}
                  /\ \A text \in VaultTexts(vault') : B64Decode(text).err = NoErr]_vars

\* C20 happens: Load returned a vault whose salt is not base64, which Unlock
\* then refuses
C20_LoadedBadSalt ==
    /\ ret.op = "Load"
    /\ ret.ok
    /\ vault # NoVault
    /\ vault.SaltB64 = BadB64
    /\ Unlock(vault, hist.mem.pw).err = <<"bad salt", "illegal base64 data">>

\* C21: no two Seals under one key use the same nonce: after any sequence of
\* Create, password change, AddEntry and UpdateEntry the Seals performed so
\* far have as many different (key, nonce) pairs as there were Seals.
C21_NonceUniquePerKey ==
    Cardinality(hist.seals) = hist.nseals

\* C21 happens: six Seals, two of them under the key derived from the first
\* password, two under the key derived from the changed password, and two of
\* one entry under its entry key
C21_SealedSixTimes ==
    /\ hist.nseals = 6
    /\ \E k \in {s[1] : s \in hist.seals} :
         /\ k.t = "hkdf"
         /\ Cardinality({s \in hist.seals : s[1] = k}) = 2
    /\ Cardinality({s[1] : s \in {x \in hist.seals : x[1].t = "scrypt"}}) = 2
    /\ \A k \in {s[1] : s \in {x \in hist.seals : x[1].t = "scrypt"}} :
         Cardinality({s \in hist.seals : s[1] = k}) = 2

\* the errors of the checks of the arguments
InputValidation ==
    {<<"key must be 16, 24, or 32 bytes">>, <<"nonce must be 12 bytes for GCM">>}

\* the lengths of key and nonce are those AES-GCM takes
ValidLengths(k, nonce) == BLen(k) \in {16, 24, 32} /\ BLen(nonce) = 12

\* C22: EncryptAESGCM and DecryptAESGCM return an error of the checks of
\* their arguments, and no bytes, whenever the key is not 16, 24 or 32 bytes
\* long or the nonce is not 12 bytes long (nil included); with valid lengths
\* EncryptAESGCM succeeds and DecryptAESGCM returns no such error.
C22_LengthsValidated ==
    /\ ret.op \in {"EncryptAESGCM", "DecryptAESGCM"} =>
         IF ValidLengths(key, ret.nonce)
         THEN ret.sealed.err = NoErr /\ ret.sealed.val.t = "gcm"
         ELSE ret.sealed.err \in InputValidation /\ ret.sealed.val = NoBytes
    /\ ret.op = "DecryptAESGCM" =>
         IF ValidLengths(ret.dkey, ret.dnonce)
         THEN ret.opened.err \notin InputValidation
         ELSE ret.opened.err \in InputValidation /\ ret.opened.val = NoBytes

\* C22 happens: a nil nonce was refused by EncryptAESGCM and a 15-byte key
\* by DecryptAESGCM
C22_RefusedNilNonce ==
    /\ ret.op = "DecryptAESGCM"
    /\ ret.nonce = [t |-> "nil"]
    /\ BLen(key) = 32
    /\ ret.sealed.err = <<"nonce must be 12 bytes for GCM">>
    /\ BLen(ret.dkey) = 15
    /\ ret.opened.err = <<"key must be 16, 24, or 32 bytes">>

\* the same bytes: two byte strings without bytes, or the same byte string
SameBytes(a, b) == (BLen(a) = 0 /\ BLen(b) = 0) \/ a = b

\* C23: with a valid key and nonce, DecryptAESGCM of what EncryptAESGCM
\* returned gives the plaintext back under the same key, nonce and associated
\* data, and an error when the associated data are other bytes (modified,
\* truncated, extended, or none instead of some).
C23_RoundTripUnderSameData ==
    (/\ ret.op = "DecryptAESGCM"
     /\ ret.sealed.err = NoErr
     /\ ret.dkey = key
     /\ ret.dnonce = ret.nonce) =>
        IF SameBytes(ret.daad, ret.aad)
        THEN ret.opened.err = NoErr /\ SameBytes(ret.opened.val, ret.pt)
        ELSE /\ ret.opened.err = <<"decryption failed (authentication tag verification failed)">>
             /\ ret.opened.val = NoBytes

\* C23 happens: data cut short, and no data in place of some, were refused
C23_OtherDataRefused ==
    /\ ret.op = "DecryptAESGCM"
    /\ ret.sealed.err = NoErr
    /\ ret.dkey = key
    /\ ret.dnonce = ret.nonce
    /\ ret.aad = [t |-> "str", s |-> "user:alice,action:read"]
    /\ ret.daad \in {Mod(ret.aad, "truncate"), [t |-> "nil"]}
    /\ ret.opened.err # NoErr

\* the secrets the application puts on the clipboard
Secrets == (CopyTexts \cup GeneratedPasswords) \ {""}

\* C24: every secret the application puts on the clipboard is removed from
\* it later, by the clear that the copy scheduled.
C24_SecretEventuallyRemoved ==
    \A text \in Secrets : (gui.clipboard = text) ~> (gui.clipboard # text)

\* the generated password is on the clipboard and no goroutine is left
C24_GeneratedPasswordLeft ==
    /\ gui.clipboard \in GeneratedPasswords \ {""}
    /\ gui.timers # <<>>
    /\ \A i \in DOMAIN gui.timers : gui.timers[i].pc = "done"

\* C25: a scheduled clear erases nothing but the text it was scheduled
\* for: what it finds on the clipboard is that text, or nothing.
C25_ClearErasesOwnText ==
    \A i \in DOMAIN gui.erased :
        gui.erased[i].was \in {gui.erased[i].by, ""}

\* the clear scheduled for one text erased another text
C25_ErasedLaterCopy ==
    /\ gui.erased # <<>>
    /\ gui.erased[1].was \in Secrets \ {gui.erased[1].by}

\* C26: every entry of a vault decrypts under the master key of the vault,
\* the key that the wrapped key of the vault unwraps to under its password.
C26_EntriesUnderMasterKey ==
    (vault # NoVault /\ ~IsV2(vault) /\ Unlock(vault, hist.mem.pw).err = NoErr) =>
        \A id \in DOMAIN vault.Entries :
            GetDecrypted(vault, Unlock(vault, hist.mem.pw).val, id).err = NoErr

\* the vault holds an entry that its master key does not open and that the
\* key derived from the password opens
C26_EntryUnderDerivedKey ==
    /\ vault # NoVault
    /\ ~IsV2(vault)
    /\ Unlock(vault, hist.mem.pw).err = NoErr
    /\ \E id \in DOMAIN vault.Entries :
         /\ GetDecrypted(vault, Unlock(vault, hist.mem.pw).val, id).err # NoErr
         /\ GetDecrypted(vault, UnlockDerivedKey(vault, hist.mem.pw).val, id).err = NoErr

\* C27: when onEditEntry ends, the vault holds the original entry as it was
\* or the edited entry.
C27_EditAllOrNothing ==
    [][Called("EditEntry") =>
         \/ /\ ret'.id \in DOMAIN vault'.Entries
            /\ vault'.Entries[ret'.id] = vault.Entries[ret'.id]
         \/ /\ ret'.key \in DOMAIN vault'.Entries
            /\ ret'.key \in DOMAIN hist'.mem.sup]_vars

\* onEditEntry ended with an error and the vault holds neither the entry
\* that was selected nor an edited one; the file still holds the original
C27_EntryLost ==
    /\ ret.op = "EditEntry"
    /\ ~ret.ok
    /\ ret.key = NoBytes
    /\ ret.id \notin DOMAIN vault.Entries
    /\ ret.id \in DOMAIN hist.disk.wr

\* C28: when UpdateEntry returns an error, the vault is as it was before the
\* call: every entry keeps its title, nonce, ciphertext and timestamps and no
\* entry is added or removed.
C28_FailedUpdateChangesNothing ==
    [][(Called("UpdateEntry") /\ ~ret'.ok) =>
         /\ vault' = vault
         /\ ret'.err \in {<<"no such id">>,
                          <<"decryption failed (authentication tag verification failed)">>,
                          <<"failed to generate random nonce", "crypto/rand">>}
                         \cup {e \in {ret'.err} : e[1] \in {"bad nonce", "bad ciphertext"}}]_vars

\* C28 happens: UpdateEntry refused an entry of the vault whose stored nonce
\* does not decode, and the entry is in the vault with that text
C28_RefusedBadNonce ==
    /\ ret.op = "UpdateEntry"
    /\ ~ret.ok
    /\ ret.err[1] = "bad nonce"
    /\ ret.id \in DOMAIN vault.Entries
    /\ vault.Entries[ret.id].NonceB64 = BadB64

\* a character type was selected
AnySelected(opts) ==
    opts.IncludeUpper \/ opts.IncludeLower \/ opts.IncludeNumbers \/ opts.IncludeSymbols

\* C29: with a character type selected, the generated password holds no
\* character of "il1Lo0O" when ExcludeSimilar is set, none of the ambiguous
\* characters when ExcludeAmbiguous is set, and a character of each selected
\* type.
C29_ExcludedCharsAbsent ==
    (ret.op = "GeneratePassword" /\ AnySelected(ret.opts)) =>
        /\ ret.opts.ExcludeSimilar => Elems(ret.password) \cap Elems(similarChars) = {}
        /\ ret.opts.ExcludeAmbiguous => Elems(ret.password) \cap Elems(ambigChars) = {}
        /\ ret.opts.IncludeUpper => Elems(ret.password) \cap Elems(upperChars) # {}
        /\ ret.opts.IncludeLower => Elems(ret.password) \cap Elems(lowerChars) # {}
        /\ ret.opts.IncludeNumbers => Elems(ret.password) \cap Elems(numberChars) # {}
        /\ ret.opts.IncludeSymbols => Elems(ret.password) \cap Elems(symbolChars) # {}

\* with digits selected and ExcludeSimilar set, the password of the requested
\* length holds "0" or "1"
C29_SimilarDigitGenerated ==
    /\ ret.op = "GeneratePassword"
    /\ ret.opts.IncludeNumbers
    /\ ret.opts.ExcludeSimilar
    /\ Len(ret.password) = 4
    /\ Elems(ret.password) \cap {"0", "1"} # {}

\* the character categories present in a password
Categories(password) ==
    {kind \in {"upper", "lower", "number", "symbol"} :
        \E c \in Elems(password) :
            CASE kind = "upper" -> IsUpper(c)
              [] kind = "lower" -> IsLower(c)
              [] kind = "number" -> IsNumber(c)
              [] kind = "symbol" -> IsPunctOrSymbol(c)}

\* the points for length and categories together
Bonus(length, categories) ==
    IF length >= 12 /\ categories = 4 THEN 20
    ELSE IF length >= 10 /\ categories >= 3 THEN 10 ELSE 0

\* the feedback line of a score
Band(score) ==
    IF score >= 80 THEN "Strong password!"
    ELSE IF score >= 60 THEN "Good password, but could be stronger"
    ELSE IF score >= 40 THEN "Moderate password - consider strengthening"
    ELSE "Weak password - needs improvement"

====
